---- MODULE Spec2Model ----
(***************************************************************************)
(* State-machine model of star-enrichment: the ingestion run (runFetch),   *)
(* the enrichment run (runEnrich) over the two tables of the store, and    *)
(* the rate-limited GitHub client (GitHubClient.request / adaptiveWait).   *)
(***************************************************************************)
EXTENDS Integers, Sequences, FiniteSets, Bags, TLC

(***************************************************************************)
(* Bounds of the model                                                     *)
(***************************************************************************)
\* number of distinct GitHub users the upstream list can mention
MaxId == 2
\* longest stargazer list getAllStargazers returns
MaxList == 2

(***************************************************************************)
(* Program constants                                                       *)
(***************************************************************************)
ENRICHMENT_BATCH_SIZE == 500
MIN_DELAY_MS == 100
MAX_DELAY_MS == 60000
RATE_LIMIT_THRESHOLD == 500
RATE_LIMIT_RESERVE == 20

VARIABLES
  \* ---- the process ----
  env,                \* process.env: which of the two keys are set
  host,               \* index.ts main(): position of the host process
  cycles,             \* index.ts: the runCycle calls started, with the position
                      \* of each
  others,             \* the other runs of the process that are in their for
                      \* loop over the rows they selected (a bag)
  \* ---- the store (DuckDB tables) ----
  stargazers,         \* table stargazers: sequence of rows, insertion order
  enriched_profiles,  \* table enriched_profiles: sequence of rows
  \* ---- the run in progress (runFetch or runEnrich) ----
  pc,                 \* position of the run
  allStargazers,      \* runFetch: the list getAllStargazers returned
  rerun,              \* runFetch: the invocation follows one that returned
                      \* normally, with the same upstream list and limit
  limit,              \* options.limit of the run
  worker,             \* the run is a runWorker (src/worker), not a runFetch
                      \* or a runEnrich
  stargazerList,      \* runFetch: local `stargazers` (after the slice)
  existingIds,        \* runFetch: local set existingIds
  fi,                 \* runFetch: position of the insert loop
  newCount,           \* runFetch: local newCount
  startLen,           \* runFetch: number of stargazers rows when the run started
  page,               \* getAllStargazers: local page
  pagesRequested,     \* getAllStargazers: the page numbers requested so far
  pagesReceived,      \* getAllStargazers: the lengths of the pages received
  sample,             \* runEnrich: options.sample, in percent
  totalPending,       \* runEnrich: local totalPending
  batchSize,          \* runEnrich: local batchSize
  pendingRows,        \* runEnrich: local pendingRows
  ri,                 \* runEnrich: position of the batch loop
  enriched,           \* runEnrich: local enriched
  failed,             \* runEnrich: local failed
  thrownBy,           \* runEnrich: the call of the record's procedure that
                      \* raised last, None after a call that returned
  candidateEmails,    \* runEnrich: local candidateEmails
  socialAccounts,     \* runEnrich: local socialAccounts
  \* ---- the GitHub client ----
  rateLimitRemaining, \* GitHubClient.rateLimitRemaining
  rateLimitReset,     \* GitHubClient.rateLimitReset (epoch seconds)
  requestCount,       \* GitHubClient.requestCount
  peer,               \* the three fields above of a second GitHubClient
                      \* instance of the process
  now,                \* Date.now(), in ms
  cpc,                \* position of the request() call in progress
  delay,              \* argument of the last this.sleep(...)
  endpoint,           \* request(): parameter endpoint
  headers,            \* request(): parameter headers
  wire,               \* the HTTP requests sent for the current call
  response,           \* the last HTTP response
  result,             \* what the request() call returned to its caller
  \* ---- the field functions (country.ts, the export helpers) ----
  fpc,                \* which function is applied, and how far
  objectCountry,      \* extractProfileData: object.country
  enrichedCountry,    \* runEnrich: enrichedData.country
  storedCountry,      \* enriched_profiles.country of the row written
  countryAgain,       \* standardizeCountry of enrichedData.country
  employersJson,      \* export: row[5], column employers
  employersResult,    \* export: { current, past }
  socialJson,         \* export: row[10], column social_accounts
  existingLinkedin,   \* export: row[6], column linkedin_url
  existingTwitter,    \* export: row[9], column twitter_username
  socialResult,       \* export: { linkedin, twitter, others }
  csvValue,           \* escapeCSV: parameter value
  csvField,           \* escapeCSV: the string returned
  \* ---- one record of runEnrich, request by request ----
  profile,            \* const profile = await github.getUserProfile(...)
  repos,              \* const repos = await github.getUserRepos(...)
  commits,            \* const commits = await github.getRepoCommits(...)
  requests,           \* the GitHub calls made for the record, in order
  \* ---- the dump command ----
  dumpRows,           \* the rows of the LEFT JOIN query
  csv                 \* the text written: lines.join("\n")

hostVars == <<env, host, cycles, others>>
storeVars == <<stargazers, enriched_profiles>>
pageVars == <<page, pagesRequested, pagesReceived>>
fetchVars == <<allStargazers, rerun, limit, worker, stargazerList, existingIds, fi,
              newCount, startLen, pageVars>>
enrichVars == <<sample, totalPending, batchSize, pendingRows, ri, enriched,
               failed, thrownBy, candidateEmails, socialAccounts>>
vars == <<env, host, cycles, others, stargazers, enriched_profiles, pc, allStargazers, rerun, limit, worker,
          stargazerList, existingIds, fi, newCount, startLen, page,
          pagesRequested, pagesReceived, totalPending,
          sample, batchSize, pendingRows, ri, enriched, failed, thrownBy,
          candidateEmails, socialAccounts,
          rateLimitRemaining, rateLimitReset, requestCount, peer, now, cpc,
          delay, endpoint, headers, wire, response, result,
          fpc, objectCountry, enrichedCountry, storedCountry, countryAgain,
          employersJson, employersResult, socialJson, existingLinkedin,
          existingTwitter, socialResult, csvValue, csvField,
          profile, repos, commits, requests, dumpRows, csv>>
runVars == <<pc, fetchVars, enrichVars>>
quotaVars == <<rateLimitRemaining, rateLimitReset, requestCount>>
callVars == <<endpoint, headers, wire, response, result>>
clientVars == <<quotaVars, peer, now, cpc, delay, callVars>>
countryVars == <<objectCountry, enrichedCountry, storedCountry, countryAgain>>
exportVars == <<employersJson, employersResult, socialJson, existingLinkedin,
               existingTwitter, socialResult, csvValue, csvField>>
recordVars == <<profile, repos, commits, requests>>
dumpVars == <<dumpRows, csv>>
fieldVars == <<fpc, countryVars, exportVars, recordVars, dumpVars>>

(***************************************************************************)
(* Values                                                                  *)
(***************************************************************************)
Ids == 1..MaxId
\* an optional number: Undefined, or Some(n)
Undefined == <<>>
Some(n) == <<n>>
None == "none"
\* no other cycle has a selection in hand
NoOthers == EmptyBag

\* one element of the list of the stargazers endpoint
GitHubStargazer(i) == [id |-> i, login |-> i, starred_at |-> i]
Lists == UNION {[1..n -> {GitHubStargazer(i) : i \in Ids}] : n \in 0..MaxList}
\* runFetch options.limit
Limits == {Undefined, Some(0), Some(1)}
\* runEnrich options.limit
EnrichLimits == {Undefined, Some(1)}
\* runEnrich options.sample, a fraction written in percent
Samples == {Undefined, Some(50)}

Min(a, b) == IF a < b THEN a ELSE b
Max(a, b) == IF a > b THEN a ELSE b

(***************************************************************************)
(* The store: schema and statements                                        *)
(***************************************************************************)
IdsOf(table) == {table[k].id : k \in 1..Len(table)}
ProfileIdsOf(table) == {table[k].github_id : k \in 1..Len(table)}
RowsWithId(table, id) == {k \in 1..Len(table) : table[k].id = id}
ProfilesWithId(table, id) == {k \in 1..Len(table) : table[k].github_id = id}
StatusesOf(table, id) == {table[k].enrichment_status : k \in RowsWithId(table, id)}

\* stargazers.id INTEGER PRIMARY KEY
StargazerPKViolated(table, id) == RowsWithId(table, id) /= {}
\* stargazers.username VARCHAR NOT NULL UNIQUE
UsernameUniqueViolated(table, login) ==
  \E k \in 1..Len(table) : table[k].username = login
\* enriched_profiles.github_id INTEGER PRIMARY KEY
ProfilePKViolated(table, id) == ProfilesWithId(table, id) /= {}

\* the row INSERT INTO stargazers (id, username, starred_at) creates: the
\* status takes its default 'pending', enriched_at is NULL
\* mutant: the status column without its default
NewStargazerRowNoDefault(s) ==
  [id |-> s.id, username |-> s.login, starred_at |-> s.starred_at,
   enrichment_status |-> None, enriched_at |-> None]
NewStargazerRow(s) ==
  [id |-> s.id, username |-> s.login, starred_at |-> s.starred_at,
   enrichment_status |-> "pending", enriched_at |-> None]

\* mutant: the inserts of the run are rolled back when one of them raises
OnInsertErrorRollback(table, start) == SubSeq(table, 1, start)
\* an INSERT of the loop raises: runFetch has no transaction and no catch,
\* the statements executed before it stay
OnInsertError(table, start) == table

\* mutant: the update without its WHERE clause
UpdateStatusAllRows(table, id, st) ==
  [k \in 1..Len(table) |->
     [table[k] EXCEPT !.enrichment_status = st,
                      !.enriched_at = IF st = "completed" THEN "now" ELSE @]]

\* UPDATE stargazers SET enrichment_status = st [, enriched_at = now] WHERE id = ?
UpdateStatus(table, id, st) ==
  [k \in 1..Len(table) |->
     IF table[k].id = id
     THEN [table[k] EXCEPT !.enrichment_status = st,
                           !.enriched_at = IF st = "completed" THEN "now" ELSE @]
     ELSE table[k]]

\* mutant: the selection without its WHERE clause
PendingRowsOfAnyStatus(table) == table

\* SELECT id, username FROM stargazers WHERE enrichment_status = 'pending'
PendingRowsOf(table) ==
  SelectSeq(table, LAMBDA r : r.enrichment_status = "pending")

(***************************************************************************)
(* runFetch                                                                *)
(***************************************************************************)
Ended == {"f_returned", "f_raised", "e_returned", "e_raised"}
\* the positions of runEnrich inside the try/catch of a record
RecordSteps == {"e_profile", "e_repos", "e_commits", "e_social", "e_extract",
                "e_insert", "e_update", "e_catch"}

\* a new invocation starts with fresh locals: those of the other operation
\* are gone
EnrichLocalsReset ==
  /\ sample' = Undefined
  /\ candidateEmails' = <<>>
  /\ socialAccounts' = <<>>
  /\ totalPending' = 0
  /\ batchSize' = 0
  /\ pendingRows' = <<>>
  /\ ri' = 1
  /\ enriched' = 0
  /\ failed' = 0
  /\ thrownBy' = None

FetchLocalsReset ==
  /\ allStargazers' = <<>>
  /\ rerun' = FALSE
  /\ worker' = FALSE
  /\ stargazerList' = <<>>
  /\ existingIds' = {}
  /\ fi' = 1
  /\ newCount' = 0
  /\ startLen' = 0
  /\ page' = 1
  /\ pagesRequested' = <<>>
  /\ pagesReceived' = <<>>

\* mutant: the head of the list, slice(0, limit)
ApplyLimitHead(list, lim) ==
  IF lim /= Undefined /\ lim[1] > 0 /\ Len(list) > lim[1]
  THEN SubSeq(list, 1, lim[1])
  ELSE list

\* if (limit && limit > 0 && stargazers.length > limit) slice(-limit)
ApplyLimit(list, lim) ==
  IF lim /= Undefined /\ lim[1] > 0 /\ Len(list) > lim[1]
  THEN SubSeq(list, Len(list) - lim[1] + 1, Len(list))
  ELSE list

\* mutant: runEnrich without its call of getOpenRouterKey
KeyMissingUnchecked(e) == FALSE
\* getOpenRouterKey: if (!process.env.OPENROUTER_API_KEY) throw
KeyMissing(e) == ~e.OPENROUTER_API_KEY
\* getGitHubToken: if (!token) throw
TokenMissing(e) == ~e.GITHUB_TOKEN

\* mutant: every fetched stargazer is inserted, known or not
IsUnseenAlways(existing, id) == TRUE
\* mutant: the test inverted
IsUnseenInverted(existing, id) == id \in existing

\* if (!existingIds.has(stargazer.user.id))
IsUnseen(existing, id) == id \notin existing

\* the caller (fetchCommand, enrichCommand, runCycle) has the result or the
\* error of the run: the locals of the run are gone
Finish ==
  /\ pc \in Ended
  /\ pc' = "idle"
  /\ limit' = Undefined
  /\ FetchLocalsReset
  /\ EnrichLocalsReset
  /\ UNCHANGED <<storeVars, clientVars, hostVars, fieldVars>>

\* the process dies in the middle of a run (a crash, or process.exit in the
\* SIGINT/SIGTERM handlers): the locals are gone, the store is what the
\* statements executed so far made it; a new process starts with no run in
\* progress
Crash ==
  /\ pc \notin Ended \cup {"idle"}
  /\ pc' = "idle"
  /\ limit' = Undefined
  /\ FetchLocalsReset
  /\ EnrichLocalsReset
  \* the other cycles of the process die with it
  /\ others' = NoOthers
  /\ profile' = Undefined
  /\ UNCHANGED <<storeVars, clientVars, env, host, cycles, fpc, countryVars,
                 exportVars, repos, commits, requests, dumpVars>>

\* runFetch is invoked and getAllStargazers returns a list or raises (the
\* page loop of getAllStargazers in one step; FetchStartPaged and
\* GetStargazersPage below follow it page by page). Invoked right after a run
\* that returned normally, with the same limit and against the same upstream
\* list, it is the second of two runs (rerun)
FetchStart ==
  /\ pc \in {"idle", "f_returned"}
  /\ \E lim \in Limits :
       /\ pc = "f_returned" => lim = limit
       /\ limit' = lim
       /\ \/ \E l \in Lists :
               /\ ~TokenMissing(env)
               /\ pc = "f_returned" => l = allStargazers
               /\ pc' = "f_existing"
               /\ allStargazers' = l
               /\ stargazerList' = ApplyLimit(l, lim)
               /\ rerun' = (pc = "f_returned")
          \/ \* getGitHubToken or a request of getAllStargazers raises
             /\ pc' = "f_raised"
             /\ allStargazers' = <<>>
             /\ stargazerList' = <<>>
             /\ rerun' = FALSE
  /\ worker' = FALSE
  /\ existingIds' = {}
  /\ fi' = 1
  /\ newCount' = 0
  /\ startLen' = Len(stargazers)
  /\ EnrichLocalsReset
  /\ UNCHANGED <<storeVars, pageVars, clientVars, hostVars, fieldVars>>

\* after the insert loop: runFetch returns its counts, runWorker goes on with
\* its step 4
LoopDone(w) == IF w THEN "w_select" ELSE "f_returned"

\* SELECT id FROM stargazers, loaded into existingIds
FetchExisting ==
  /\ pc = "f_existing"
  /\ \/ /\ existingIds' = IdsOf(stargazers)
        /\ pc' = IF Len(stargazerList) = 0 THEN LoopDone(worker) ELSE "f_insert"
     \/ /\ existingIds' = existingIds
        /\ pc' = "f_raised"
  /\ UNCHANGED <<storeVars, allStargazers, rerun, limit, worker, stargazerList, fi,
                 newCount, startLen, pageVars, enrichVars, clientVars, hostVars, fieldVars>>

\* one iteration of the insert loop
FetchInsert ==
  /\ pc = "f_insert"
  /\ LET s == stargazerList[fi]
         last == fi = Len(stargazerList)
     IN  \/ \* already known: skipped
            /\ ~IsUnseen(existingIds, s.id)
            /\ UNCHANGED <<stargazers, newCount>>
            /\ pc' = IF last THEN LoopDone(worker) ELSE "f_insert"
            /\ fi' = fi + 1
         \/ \* INSERT succeeds
            /\ IsUnseen(existingIds, s.id)
            /\ ~StargazerPKViolated(stargazers, s.id)
            /\ ~UsernameUniqueViolated(stargazers, s.login)
            /\ stargazers' = Append(stargazers, NewStargazerRow(s))
            /\ newCount' = newCount + 1
            /\ pc' = IF last THEN LoopDone(worker) ELSE "f_insert"
            /\ fi' = fi + 1
         \/ \* INSERT raises (constraint violation or any other store error)
            /\ IsUnseen(existingIds, s.id)
            /\ stargazers' = OnInsertError(stargazers, startLen)
            /\ UNCHANGED <<newCount, fi>>
            /\ pc' = "f_raised"
  /\ UNCHANGED <<enriched_profiles, allStargazers, rerun, limit, worker,
                 stargazerList, existingIds, startLen, pageVars, enrichVars, clientVars, hostVars, fieldVars>>

(***************************************************************************)
(* getAllStargazers, page by page, inside runFetch                         *)
(***************************************************************************)
\* most pages the upstream list spreads over: page MaxPages is a short one
MaxPages == 3
\* const perPage = 100
PER_PAGE == 100

\* the lengths of the pages the stargazers endpoint answers with
PageLens == {0, 10, 99, 100, 250}
\* runFetch options.limit against the paged upstream
PageLimits == {Undefined, Some(-1), Some(0), Some(3), Some(99)}
\* the n entries of page p of the upstream list: users distinct over the pages
PageItems(p, n) == [i \in 1..n |-> GitHubStargazer(1000 * (p - 1) + i)]

\* if (stargazers.length === 0) break
IsEmptyPage(n) == n = 0
\* mutant: a full page ends the loop too (<= for <)
IsShortPageOrFull(n) == n <= PER_PAGE
\* if (stargazers.length < perPage) break
IsShortPage(n) == n < PER_PAGE

\* mutant: the page loop ends at a failing request and returns what it has
OnPageErrorBreak == "f_existing"
\* getStargazers raises inside while (true): no try, the error leaves
\* getAllStargazers and runFetch
OnPageError == "f_raised"

\* runFetch is invoked; getAllStargazers starts with page = 1 and an empty list
FetchStartPaged ==
  /\ pc = "idle"
  /\ \E lim \in PageLimits : limit' = lim
  /\ pc' = IF TokenMissing(env) THEN "f_raised" ELSE "f_page"
  /\ allStargazers' = <<>>
  /\ stargazerList' = <<>>
  /\ rerun' = FALSE
  /\ worker' = FALSE
  /\ existingIds' = {}
  /\ fi' = 1
  /\ newCount' = 0
  /\ startLen' = Len(stargazers)
  /\ page' = 1
  /\ pagesRequested' = <<>>
  /\ pagesReceived' = <<>>
  /\ EnrichLocalsReset
  /\ UNCHANGED <<storeVars, clientVars, hostVars, fieldVars>>

\* one iteration of while (true): the page is requested and the answer is
\* appended; after the last page getAllStargazers returns and runFetch applies
\* the limit
GetStargazersPage ==
  /\ pc = "f_page"
  /\ pagesRequested' = Append(pagesRequested, page)
  /\ \/ \E n \in PageLens :
          /\ page >= MaxPages => n < PER_PAGE
          /\ pagesReceived' = Append(pagesReceived, n)
          /\ allStargazers' =
               IF IsEmptyPage(n) THEN allStargazers
               ELSE allStargazers \o PageItems(page, n)
          /\ IF IsEmptyPage(n) \/ IsShortPage(n)
             THEN /\ page' = page
                  /\ stargazerList' = ApplyLimit(allStargazers', limit)
                  /\ pc' = "f_existing"
             ELSE /\ page' = page + 1
                  /\ stargazerList' = stargazerList
                  /\ pc' = "f_page"
     \/ \* the request raises: getAllStargazers and runFetch raise, the
        \* pages collected so far are gone with the call
        /\ UNCHANGED <<pagesReceived, page, stargazerList>>
        /\ allStargazers' = <<>>
        /\ pc' = OnPageError
  /\ UNCHANGED <<storeVars, rerun, limit, worker, existingIds, fi, newCount,
                 startLen, enrichVars, clientVars, hostVars, fieldVars>>

(***************************************************************************)
(* runEnrich                                                               *)
(***************************************************************************)
\* Math.round of p percent of n (the inputs of the model are those where the
\* floating-point product rounds as the exact one)
RoundPercent(n, p) == (2 * n * p + 100) \div 200

\* sample !== undefined && sample > 0 && sample <= 1
SampleValid(smp) == smp /= Undefined /\ smp[1] > 0 /\ smp[1] <= 100

\* let batchSize: sampled, or limit ?? ENRICHMENT_BATCH_SIZE
BatchSize(total, lim, smp) ==
  IF SampleValid(smp) THEN Max(1, RoundPercent(total, smp[1]))
  ELSE IF lim = Undefined THEN ENRICHMENT_BATCH_SIZE ELSE lim[1]

\* the number of rows a selection with LIMIT n returns out of avail rows
SelectCount(n, avail) == Min(n, avail)

\* the rows the pending selection may return: WHERE enrichment_status =
\* 'pending' [ORDER BY RANDOM()] LIMIT n
SelectPending(table, n, random) ==
  LET pend == PendingRowsOf(table)
      k == SelectCount(n, Len(pend))
  IN  IF random
      THEN {[j \in 1..k |-> pend[f[j]]] :
              f \in {g \in [1..k -> 1..Len(pend)] :
                       \A a, b \in 1..k : a /= b => g[a] /= g[b]}}
      ELSE {SubSeq(pend, 1, k)}

\* runEnrich is invoked with options of lims and smps: the two keys, the
\* connection, the count of the pending rows and the batch size computed
\* from it; the selection is the next awaited statement (EnrichSelect)
EnrichCalled(lims, smps) ==
  /\ pc = "idle"
  /\ FetchLocalsReset
  /\ enriched' = 0
  /\ failed' = 0
  /\ ri' = 1
  /\ thrownBy' = None
  /\ candidateEmails' = <<>>
  /\ socialAccounts' = <<>>
  /\ pendingRows' = <<>>
  /\ \E lim \in lims, smp \in smps :
       /\ limit' = lim
       /\ sample' = smp
       /\ \/ /\ ~TokenMissing(env)
             /\ ~KeyMissing(env)
             /\ totalPending' = Len(PendingRowsOf(stargazers))
             /\ batchSize' = BatchSize(totalPending', lim, smp)
             /\ pc' = "e_select"
          \/ \* a key is missing, or getDb, connect or the count raises
             /\ totalPending' = 0
             /\ batchSize' = 0
             /\ pc' = "e_raised"
  /\ UNCHANGED <<storeVars, clientVars, hostVars, fieldVars>>

\* runEnrich is invoked by a cycle or a command
EnrichStart == EnrichCalled(EnrichLimits, Samples)

\* the pending selection, on the store as it is when the statement runs: the
\* count was taken by an earlier statement
EnrichSelect ==
  /\ pc = "e_select"
  /\ \/ \E sel \in SelectPending(stargazers, batchSize, SampleValid(sample)) :
          /\ pendingRows' = sel
          /\ pc' = IF Len(sel) = 0 THEN "e_returned" ELSE "e_profile"
     \/ \* the selection raises: the count is taken, no row is selected
        /\ pendingRows' = <<>>
        /\ pc' = "e_raised"
  /\ UNCHANGED <<storeVars, fetchVars, sample, totalPending, batchSize, ri,
                 enriched, failed, thrownBy, candidateEmails, socialAccounts,
                 clientVars, hostVars, fieldVars>>

\* the statement after the per-record try/catch: next row, or the return; the
\* locals of the try block are gone
NextRecord ==
  /\ ri' = ri + 1
  /\ pc' = IF ri = Len(pendingRows) THEN "e_returned" ELSE "e_profile"
  /\ profile' = Undefined
  /\ candidateEmails' = <<>>
  /\ socialAccounts' = <<>>

EnrichFrame ==
  UNCHANGED <<clientVars, hostVars, fpc, countryVars, exportVars, repos,
              commits, requests, dumpVars, fetchVars, sample, totalPending,
              batchSize, pendingRows>>

\* mutant: the error of the email discovery reaches the outer catch
OnEmailErrorRethrown == "e_catch"
\* catch (emailError) { console.warn(...) }: on to the social accounts
OnEmailError == "e_social"
\* mutant: the error of the social-accounts request reaches the outer catch
OnSocialErrorRethrown == "e_catch"
\* catch (socialError) { console.warn(...) }: on to the extraction
OnSocialError == "e_extract"

\* what getRepoCommits yields after the noreply filter and the deduplication
CommitEmails == {<<>>, <<"a@example.com">>}
\* what getUserSocialAccounts returns for a user: the first user lists one
\* account, the others none
SocialAccountsOf(username) ==
  IF username = 1 THEN <<[provider |-> "twitter", url |-> "https://x.com/1"]>>
  ELSE <<>>

\* !x of a string of characters that may be null
FalsyString(x) == x = Undefined \/ x[1] = <<>>

AddrA == <<"a", "@", "x", ".", "i", "o">>
\* profile.email: null, the empty string, an address
ProfileEmails == {Undefined, Some(<<>>), Some(AddrA)}

\* mutant: the email discovery runs for every profile
EmailMissingAlways(email) == TRUE
\* if (!profile.email)
EmailMissing(email) == FalsyString(email)

\* mutant: the error of the profile request is swallowed like the one of
\* the email discovery
OnProfileErrorSwallowed == "e_social"
\* the await of getUserProfile stands directly in the outer try: its error
\* reaches catch (error)
OnProfileError == "e_catch"

\* the step after a fetched profile: if (!profile.email) runEnrich lists the
\* repositories, else it goes on to the social accounts; runWorker passes
\* the profile to extractProfileData directly
AfterProfile(w, email) ==
  IF w THEN "e_extract"
  ELSE IF EmailMissing(email) THEN "e_repos" ELSE "e_social"

\* const profile = await github.getUserProfile(username);
\* let candidateEmails = []; if (!profile.email)
EnrichProfile ==
  /\ pc = "e_profile"
  /\ \/ \* the profile is fetched
        \E email \in ProfileEmails :
          /\ profile' = Some([email |-> email])
          /\ pc' = AfterProfile(worker, email)
          /\ thrownBy' = None
     \/ \* the request raises
        /\ profile' = profile
        /\ pc' = OnProfileError
        /\ thrownBy' = "profile"
  /\ UNCHANGED <<storeVars, ri, enriched, failed, candidateEmails, socialAccounts>>
  /\ EnrichFrame

\* github.getUserRepos(username) and repos.find(owned, not a fork)
EnrichRepos ==
  /\ pc = "e_repos"
  /\ \/ pc' = "e_commits" /\ thrownBy' = None   \* an owned repository is found
     \/ pc' = "e_social" /\ thrownBy' = None    \* none is found
     \/ pc' = OnEmailError /\ thrownBy' = "repos" \* the request raises
  /\ UNCHANGED <<storeVars, ri, enriched, failed, profile, candidateEmails,
                 socialAccounts>>
  /\ EnrichFrame

\* github.getRepoCommits(...) and the candidate emails of the commits
EnrichCommits ==
  /\ pc = "e_commits"
  /\ \/ \E emails \in CommitEmails :
          /\ candidateEmails' = emails
          /\ thrownBy' = None
          /\ pc' = "e_social"
     \/ \* the request raises
        /\ candidateEmails' = candidateEmails
        /\ thrownBy' = "commits"
        /\ pc' = OnEmailError
  /\ UNCHANGED <<storeVars, ri, enriched, failed, profile, socialAccounts>>
  /\ EnrichFrame

\* let socialAccounts = []; github.getUserSocialAccounts(username)
EnrichSocial ==
  /\ pc = "e_social"
  /\ \/ /\ socialAccounts' = SocialAccountsOf(pendingRows[ri].username)
        /\ thrownBy' = None
        /\ pc' = "e_extract"
     \/ \* the request raises
        /\ socialAccounts' = <<>>
        /\ thrownBy' = "social"
        /\ pc' = OnSocialError
  /\ UNCHANGED <<storeVars, ri, enriched, failed, profile, candidateEmails>>
  /\ EnrichFrame

\* extractProfileData(profile, candidateEmails): getOpenRouter() first, then
\* the model call
EnrichExtract ==
  /\ pc = "e_extract"
  /\ \/ /\ env.OPENROUTER_API_KEY
        /\ pc' = "e_insert"
        /\ thrownBy' = None
        /\ UNCHANGED <<profile, candidateEmails, socialAccounts>>
     \/ /\ pc' = "e_catch"
        /\ thrownBy' = "extract"
        /\ profile' = Undefined
        /\ candidateEmails' = <<>>
        /\ socialAccounts' = <<>>
  /\ UNCHANGED <<storeVars, ri, enriched, failed>>
  /\ EnrichFrame

\* the social_accounts column of the row of a run: runEnrich binds
\* JSON.stringify(socialAccounts), the INSERT of runWorker does not name the
\* column and it stays NULL
SocialAccountsColumn(w, accounts) == IF w THEN Undefined ELSE Some(accounts)

\* INSERT INTO enriched_profiles (github_id, ..., social_accounts, ...)
EnrichInsert ==
  /\ pc = "e_insert"
  /\ LET id == pendingRows[ri].id
     IN  \/ /\ ~ProfilePKViolated(enriched_profiles, id)
            /\ enriched_profiles' =
                 Append(enriched_profiles,
                        [github_id |-> id,
                         social_accounts |->
                           SocialAccountsColumn(worker, socialAccounts)])
            /\ pc' = "e_update"
            /\ thrownBy' = None
            /\ UNCHANGED <<profile, candidateEmails, socialAccounts>>
         \/ \* constraint violation or any other store error
            /\ enriched_profiles' = enriched_profiles
            /\ pc' = "e_catch"
            /\ thrownBy' = "insert"
            /\ profile' = Undefined
            /\ candidateEmails' = <<>>
            /\ socialAccounts' = <<>>
  /\ UNCHANGED <<stargazers, ri, enriched, failed>>
  /\ EnrichFrame

\* UPDATE stargazers SET enrichment_status = 'completed', enriched_at = ...
EnrichUpdate ==
  /\ pc = "e_update"
  /\ LET id == pendingRows[ri].id
     IN  \/ /\ stargazers' = UpdateStatus(stargazers, id, "completed")
            /\ enriched' = enriched + 1
            /\ thrownBy' = None
            /\ NextRecord
         \/ /\ UNCHANGED <<stargazers, enriched, ri>>
            /\ pc' = "e_catch"
            /\ thrownBy' = "update"
            /\ profile' = Undefined
            /\ candidateEmails' = <<>>
            /\ socialAccounts' = <<>>
  /\ UNCHANGED <<enriched_profiles, failed>>
  /\ EnrichFrame

\* catch (error): UPDATE stargazers SET enrichment_status = 'failed'
EnrichCatch ==
  /\ pc = "e_catch"
  /\ LET id == pendingRows[ri].id
     IN  \/ /\ stargazers' = UpdateStatus(stargazers, id, "failed")
            /\ failed' = failed + 1
            /\ NextRecord
         \/ \* the update in the handler raises: the run raises
            /\ UNCHANGED <<stargazers, failed, ri, profile, candidateEmails,
                           socialAccounts>>
            /\ pc' = "e_raised"
  /\ thrownBy' = None
  /\ UNCHANGED <<enriched_profiles, enriched>>
  /\ EnrichFrame

(***************************************************************************)
(* The other cycles of the host process: the timer callback of index.ts    *)
(* calls runCycle without waiting for the cycles started before, so the   *)
(* statements of their runFetch and runEnrich land between the awaits of   *)
(* the run followed above. Each of them is a run of its own: it has the    *)
(* rows its selection returned and handles them in order, whatever the     *)
(* other runs made of them meanwhile                                       *)
(***************************************************************************)
\* most other runs with a selection in hand at a time
MaxOthers == 2

\* a run with its selection: the ids of the rows not handled yet (the first
\* is the record in progress) and whether its INSERT for that record is done
OtherCycle(rows, ins) == [rows |-> rows, inserted |-> ins]

\* `others` with the run c replaced by what it became
Becomes(o, c, d) == (o (-) SetToBag({c})) (+) SetToBag({d})

\* the per-record try/catch of c is over: next row of its for loop, or its
\* return after the last one
AfterRecord(o, c) ==
  IF Len(c.rows) = 1 THEN o (-) SetToBag({c})
  ELSE Becomes(o, c, OtherCycle(Tail(c.rows), FALSE))

\* the ids of the rows a selection returned
SelectedIds(sel) == [k \in 1..Len(sel) |-> sel[k].id]

\* runFetch of another cycle inserts a stargazer its list holds and its
\* existingIds does not
OtherFetchInsert ==
  /\ ~TokenMissing(env)
  /\ \E id \in Ids :
       /\ ~StargazerPKViolated(stargazers, id)
       /\ stargazers' = Append(stargazers, NewStargazerRow(GitHubStargazer(id)))
  /\ UNCHANGED <<enriched_profiles, runVars, clientVars, hostVars, fieldVars>>

\* the pending selection of the runEnrich of another cycle (runCycle passes
\* neither limit nor sample) returns rows: the run enters its for loop
OtherEnrichSelect ==
  /\ ~TokenMissing(env)
  /\ ~KeyMissing(env)
  /\ BagCardinality(others) < MaxOthers
  /\ \E sel \in SelectPending(stargazers, ENRICHMENT_BATCH_SIZE, FALSE) :
       /\ Len(sel) > 0
       /\ others' = others (+) SetToBag({OtherCycle(SelectedIds(sel), FALSE)})
  /\ UNCHANGED <<storeVars, runVars, clientVars, env, host, cycles, fieldVars>>

\* the INSERT INTO enriched_profiles of another cycle succeeds
OtherEnrichInsert ==
  /\ \E c \in BagToSet(others) :
       LET id == Head(c.rows)
       IN  /\ ~c.inserted
           /\ ~ProfilePKViolated(enriched_profiles, id)
           /\ \E accounts \in {SocialAccountsOf(id), <<>>} :
                enriched_profiles' =
                  Append(enriched_profiles,
                         [github_id |-> id,
                          social_accounts |-> SocialAccountsColumn(FALSE, accounts)])
           /\ others' = Becomes(others, c, OtherCycle(c.rows, TRUE))
  /\ UNCHANGED <<stargazers, runVars, clientVars, env, host, cycles, fieldVars>>

\* the UPDATE ... 'completed' of another cycle
OtherEnrichUpdate ==
  /\ \E c \in BagToSet(others) :
       /\ c.inserted
       /\ stargazers' = UpdateStatus(stargazers, Head(c.rows), "completed")
       /\ others' = AfterRecord(others, c)
  /\ UNCHANGED <<enriched_profiles, runVars, clientVars, env, host, cycles, fieldVars>>

\* the handler of another cycle: a request, the extraction or the insert
\* raised for its record, or the update to 'completed' raised after the
\* insert
OtherEnrichFail ==
  /\ \E c \in BagToSet(others) :
       \/ \* UPDATE ... 'failed', whatever the status is by now
          /\ stargazers' = UpdateStatus(stargazers, Head(c.rows), "failed")
          /\ others' = AfterRecord(others, c)
       \/ \* the update in the handler raises: that run raises
          /\ stargazers' = stargazers
          /\ others' = others (-) SetToBag({c})
  /\ UNCHANGED <<enriched_profiles, runVars, clientVars, env, host, cycles, fieldVars>>

(***************************************************************************)
(* runWorker (src/worker): ingestion and enrichment in one call            *)
(***************************************************************************)
\* const ENRICHMENT_BATCH_SIZE = 50 of src/worker
WORKER_BATCH_SIZE == 50

\* runWorker is invoked: validateEnv, the connection, getAllStargazers (no
\* limit)
WorkerStart ==
  /\ pc = "idle"
  /\ limit' = Undefined
  /\ \/ \E l \in Lists :
          /\ ~TokenMissing(env)
          /\ ~KeyMissing(env)
          /\ pc' = "f_existing"
          /\ allStargazers' = l
          /\ stargazerList' = l
     \/ \* validateEnv, getDb, connect or a request of getAllStargazers raises
        /\ pc' = "f_raised"
        /\ allStargazers' = <<>>
        /\ stargazerList' = <<>>
  /\ rerun' = FALSE
  /\ worker' = TRUE
  /\ existingIds' = {}
  /\ fi' = 1
  /\ newCount' = 0
  /\ startLen' = Len(stargazers)
  /\ EnrichLocalsReset
  /\ UNCHANGED <<storeVars, pageVars, clientVars, hostVars, fieldVars>>

\* step 4 of runWorker: SELECT id, username ... WHERE enrichment_status =
\* 'pending' LIMIT 50, with no count before it
WorkerSelect ==
  /\ pc = "w_select"
  /\ \/ \E sel \in SelectPending(stargazers, WORKER_BATCH_SIZE, FALSE) :
          /\ pendingRows' = sel
          /\ pc' = IF Len(sel) = 0 THEN "e_returned" ELSE "e_profile"
     \/ /\ pendingRows' = <<>>
        /\ pc' = "e_raised"
  /\ UNCHANGED <<storeVars, fetchVars, sample, totalPending, batchSize, ri,
                 enriched, failed, thrownBy, candidateEmails, socialAccounts,
                 clientVars, hostVars, fieldVars>>

(***************************************************************************)
(* The other runWorker calls of the host process of src/unnamed/part_001,  *)
(* started by its timer without waiting for the calls before them; the     *)
(* two status updates are the statements of OtherEnrichUpdate and          *)
(* OtherEnrichFail                                                         *)
(***************************************************************************)
\* step 3 of another runWorker inserts a stargazer
OtherWorkerFetchInsert ==
  /\ ~TokenMissing(env)
  /\ ~KeyMissing(env)
  /\ \E id \in Ids :
       /\ ~StargazerPKViolated(stargazers, id)
       /\ stargazers' = Append(stargazers, NewStargazerRow(GitHubStargazer(id)))
  /\ UNCHANGED <<enriched_profiles, runVars, clientVars, hostVars, fieldVars>>

\* step 4 of another runWorker: its pending selection returns rows
OtherWorkerSelect ==
  /\ ~TokenMissing(env)
  /\ ~KeyMissing(env)
  /\ BagCardinality(others) < MaxOthers
  /\ \E sel \in SelectPending(stargazers, WORKER_BATCH_SIZE, FALSE) :
       /\ Len(sel) > 0
       /\ others' = others (+) SetToBag({OtherCycle(SelectedIds(sel), FALSE)})
  /\ UNCHANGED <<storeVars, runVars, clientVars, env, host, cycles, fieldVars>>

\* the INSERT INTO enriched_profiles of another runWorker succeeds
OtherWorkerInsert ==
  /\ \E c \in BagToSet(others) :
       LET id == Head(c.rows)
       IN  /\ ~c.inserted
           /\ ~ProfilePKViolated(enriched_profiles, id)
           /\ enriched_profiles' =
                Append(enriched_profiles,
                       [github_id |-> id,
                        social_accounts |-> SocialAccountsColumn(TRUE, <<>>)])
           /\ others' = Becomes(others, c, OtherCycle(c.rows, TRUE))
  /\ UNCHANGED <<stargazers, runVars, clientVars, env, host, cycles, fieldVars>>

(***************************************************************************)
(* GitHubClient: adaptiveWait and request                                  *)
(***************************************************************************)
\* longest chain of HTTP requests of one client the model follows
MaxRequests == 3
\* longest paced sequence of requests the pacing simulation follows
MaxPaced == 30
\* most responses of the second client instance the model follows
MaxPeer == 1

\* no response received yet
NoResponse == [status |-> 0, remaining |-> Undefined, reset |-> Undefined,
               body |-> None]

\* the quota fields of a GitHubClient instance after construction: the
\* initialisers of the class body
NewClient ==
  [rateLimitRemaining |-> 5000, rateLimitReset |-> 0, requestCount |-> 0]

\* the fields of a client after construction, no call in progress
ClientAtRest ==
  /\ rateLimitRemaining = NewClient.rateLimitRemaining
  /\ rateLimitReset = NewClient.rateLimitReset
  /\ requestCount = NewClient.requestCount
  /\ peer = NewClient
  /\ now = 0
  /\ cpc = "idle"
  /\ delay = 0
  /\ endpoint = None
  /\ headers = Undefined
  /\ wire = <<>>
  /\ response = NoResponse
  /\ result = None

\* mutant: fast mode at the threshold itself (>= for >)
AdaptiveDelayFastAtThreshold(t, remaining, reset) ==
  LET resetTime == reset * 1000
      timeUntilReset == Max(0, resetTime - t)
  IN  IF reset = 0 \/ timeUntilReset <= 0 THEN MIN_DELAY_MS
      ELSE IF remaining >= RATE_LIMIT_THRESHOLD THEN MIN_DELAY_MS
      ELSE LET availableCalls == Max(1, remaining - RATE_LIMIT_RESERVE)
               calculatedDelay == timeUntilReset \div availableCalls
           IN  Min(MAX_DELAY_MS, Max(MIN_DELAY_MS, calculatedDelay))

\* the delay adaptiveWait passes to this.sleep
AdaptiveDelay(t, remaining, reset) ==
  LET resetTime == reset * 1000
      timeUntilReset == Max(0, resetTime - t)
  IN  IF reset = 0 \/ timeUntilReset <= 0 THEN MIN_DELAY_MS
      ELSE IF remaining > RATE_LIMIT_THRESHOLD THEN MIN_DELAY_MS
      ELSE LET availableCalls == Max(1, remaining - RATE_LIMIT_RESERVE)
               calculatedDelay == timeUntilReset \div availableCalls
           IN  Min(MAX_DELAY_MS, Max(MIN_DELAY_MS, calculatedDelay))

\* the headers of the fetch call: the defaults, overridden by ...headers
MergeHeaders(h) ==
  [Authorization |-> "Bearer token",
   Accept |-> IF h = Undefined THEN "application/vnd.github+json" ELSE h[1]]

\* mutant: without the header the quota counts as used up
ParseRemainingZero(h) == IF h = Undefined THEN 0 ELSE h[1]
\* parseInt(response.headers.get("X-RateLimit-Remaining") || "5000", 10)
ParseRemaining(h) == IF h = Undefined THEN 5000 ELSE h[1]
\* parseInt(response.headers.get("X-RateLimit-Reset") || "0", 10)
ParseReset(h) == IF h = Undefined THEN 0 ELSE h[1]
\* response.ok
Ok(status) == status >= 200 /\ status <= 299
\* mutant: any error response with zero remaining quota
QuotaExhaustedAnyStatus(status, remaining) == remaining = 0
\* response.status === 403 && this.rateLimitRemaining === 0
QuotaExhausted(status, remaining) == status = 403 /\ remaining = 0
\* mutant: the recursive call drops the headers
RetryArgumentsNoHeaders(e, h) == <<e, Undefined>>
\* the arguments of the recursive call this.request<T>(endpoint, headers)
RetryArguments(e, h) == <<e, h>>

Endpoints == {"/users/a", "/users/a/repos"}
HeaderArgs == {Undefined, Some("application/vnd.github.star+json")}
Statuses == {200, 403, 404}
RemainingHeaders == {Undefined, Some(0), Some(7)}
ResetHeaders == {Undefined, Some(1), Some(90)}
Bodies == {"body1", "body2"}
Responses ==
  [status : Statuses, remaining : RemainingHeaders, reset : ResetHeaders,
   body : Bodies]

StoreFrame == UNCHANGED <<storeVars, runVars, hostVars, fieldVars>>

\* a caller invokes request(endpoint, headers)
Request ==
  /\ cpc \in {"idle", "returned", "thrown"}
  /\ requestCount < MaxRequests
  /\ \E e \in Endpoints, h \in HeaderArgs : endpoint' = e /\ headers' = h
  /\ cpc' = "adaptiveWait"
  /\ wire' = <<>>
  /\ response' = NoResponse
  /\ result' = None
  /\ UNCHANGED <<quotaVars, peer, now, delay>>
  /\ StoreFrame

\* await this.adaptiveWait(), then the fetch call is issued
AdaptiveWait ==
  /\ cpc = "adaptiveWait"
  /\ delay' = AdaptiveDelay(now, rateLimitRemaining, rateLimitReset)
  /\ now' = now + delay'
  /\ cpc' = "fetch"
  /\ wire' = Append(wire, <<endpoint, MergeHeaders(headers)>>)
  /\ UNCHANGED <<quotaVars, peer, endpoint, headers, response, result>>
  /\ StoreFrame

\* the response arrives: the quota fields are updated, then the call returns
\* the body, waits for the quota reset, or throws. The upstream answers
\* anything to the first MaxRequests requests of the client and with a success
\* from then on (the logging of the quota status changes no state that is
\* read elsewhere and is left out)
Respond ==
  /\ cpc = "fetch"
  /\ \E r \in Responses :
       /\ requestCount >= MaxRequests => Ok(r.status)
       /\ response' = r
       /\ rateLimitRemaining' = ParseRemaining(r.remaining)
       /\ rateLimitReset' = ParseReset(r.reset)
       /\ requestCount' = requestCount + 1
       /\ IF Ok(r.status)
          THEN /\ cpc' = "returned"
               /\ result' = r.body
               /\ delay' = delay
          ELSE IF QuotaExhausted(r.status, rateLimitRemaining')
          THEN /\ cpc' = "rateLimited"
               /\ result' = result
               \* waitTime + 1000, the argument of the sleep
               /\ delay' = Max(0, rateLimitReset' * 1000 - now) + 1000
          ELSE /\ cpc' = "thrown"
               /\ result' = result
               /\ delay' = delay
  /\ UNCHANGED <<peer, now, endpoint, headers, wire>>
  /\ StoreFrame

\* the request() of the second instance receives a response: the three
\* assignments write this.rateLimitRemaining, this.rateLimitReset and
\* this.requestCount of that instance (the fields are instance fields, the
\* class has no static member)
PeerRespond ==
  /\ peer.requestCount < MaxPeer
  /\ \E r \in Responses :
       peer' = [rateLimitRemaining |-> ParseRemaining(r.remaining),
                rateLimitReset |-> ParseReset(r.reset),
                requestCount |-> peer.requestCount + 1]
  /\ UNCHANGED <<quotaVars, now, cpc, delay, callVars>>
  /\ StoreFrame

\* the sleep until the reset is over: return this.request(endpoint, headers)
RetryAfterReset ==
  /\ cpc = "rateLimited"
  /\ now' = now + delay
  /\ endpoint' = RetryArguments(endpoint, headers)[1]
  /\ headers' = RetryArguments(endpoint, headers)[2]
  /\ cpc' = "adaptiveWait"
  /\ UNCHANGED <<quotaVars, peer, delay, wire, response, result>>
  /\ StoreFrame

(***************************************************************************)
(* Strings: sequences of characters                                        *)
(***************************************************************************)
LowerChars ==
  <<"a", "b", "c", "d", "e", "f", "g", "h", "i", "j", "k", "l", "m", "n",
    "o", "p", "q", "r", "s", "t", "u", "v", "w", "x", "y", "z", "é", "ñ", "ü">>
UpperChars ==
  <<"A", "B", "C", "D", "E", "F", "G", "H", "I", "J", "K", "L", "M", "N",
    "O", "P", "Q", "R", "S", "T", "U", "V", "W", "X", "Y", "Z", "É", "Ñ", "Ü">>
\* the characters \s matches and trim() strips, of those the model writes
WhiteSpace == {" ", "\t", "\n", "\r"}

CaseIndex(chars, c) == CHOOSE i \in DOMAIN chars : chars[i] = c
ToLowerChar(c) ==
  IF \E i \in DOMAIN UpperChars : UpperChars[i] = c
  THEN LowerChars[CaseIndex(UpperChars, c)] ELSE c
ToUpperChar(c) ==
  IF \E i \in DOMAIN LowerChars : LowerChars[i] = c
  THEN UpperChars[CaseIndex(LowerChars, c)] ELSE c
\* String.prototype.toLowerCase / toUpperCase
ToLowerCase(s) == [i \in 1..Len(s) |-> ToLowerChar(s[i])]
ToUpperCase(s) == [i \in 1..Len(s) |-> ToUpperChar(s[i])]

\* String.prototype.trim
Trim(s) ==
  LET inked == {i \in 1..Len(s) : s[i] \notin WhiteSpace}
  IN  IF inked = {} THEN <<>>
      ELSE SubSeq(s, CHOOSE i \in inked : \A j \in inked : i <= j,
                     CHOOSE i \in inked : \A j \in inked : i >= j)

\* the length of the run of non-white-space characters s starts with
RECURSIVE WordLen(_)
WordLen(s) ==
  IF s = <<>> \/ s[1] \in WhiteSpace THEN 0 ELSE 1 + WordLen(Tail(s))

\* s.split(/\s+/) of a trimmed string: its maximal runs of non-white-space
\* characters
RECURSIVE SplitWhitespace(_)
SplitWhitespace(s) ==
  IF s = <<>> THEN <<>>
  ELSE IF s[1] \in WhiteSpace THEN SplitWhitespace(Tail(s))
  ELSE <<SubSeq(s, 1, WordLen(s))>>
         \o SplitWhitespace(SubSeq(s, WordLen(s) + 1, Len(s)))

\* Array.prototype.join
RECURSIVE Join(_, _)
Join(parts, sep) ==
  IF Len(parts) = 0 THEN <<>>
  ELSE IF Len(parts) = 1 THEN parts[1]
  ELSE parts[1] \o sep \o Join(Tail(parts), sep)

\* String.prototype.startsWith
StartsWith(s, prefix) ==
  Len(s) >= Len(prefix) /\ SubSeq(s, 1, Len(prefix)) = prefix

\* String.prototype.includes, for one character
Includes(s, c) == \E i \in 1..Len(s) : s[i] = c

\* n spaces
Spaces(n) == [i \in 1..n |-> " "]

\* a call that raised
Raised == <<"raised", "TypeError", "thrown">>

(***************************************************************************)
(* enrichment/country.ts                                                   *)
(***************************************************************************)
\* const COUNTRY_STANDARDIZATION: the own properties of the object, as
\* <<key, value>> in the order of the source
COUNTRY_STANDARDIZATION == <<
  <<<<"u", "n", "i", "t", "e", "d", " ", "s", "t", "a", "t", "e", "s">>,
      <<"U", "S">>>>,
  <<<<"u", "n", "i", "t", "e", "d", " ", "s", "t", "a", "t", "e", "s", " ", "o", "f", " ", "a", "m", "e", "r", "i", "c", "a">>,
      <<"U", "S">>>>,
  <<<<"u", "s", "a">>,
      <<"U", "S">>>>,
  <<<<"u", "s">>,
      <<"U", "S">>>>,
  <<<<"u", ".", "s", ".">>,
      <<"U", "S">>>>,
  <<<<"u", ".", "s", ".", "a", ".">>,
      <<"U", "S">>>>,
  <<<<"a", "m", "e", "r", "i", "c", "a">>,
      <<"U", "S">>>>,
  <<<<"u", "n", "i", "t", "e", "d", " ", "k", "i", "n", "g", "d", "o", "m">>,
      <<"U", "K">>>>,
  <<<<"g", "r", "e", "a", "t", " ", "b", "r", "i", "t", "a", "i", "n">>,
      <<"U", "K">>>>,
  <<<<"b", "r", "i", "t", "a", "i", "n">>,
      <<"U", "K">>>>,
  <<<<"u", "k">>,
      <<"U", "K">>>>,
  <<<<"u", ".", "k", ".">>,
      <<"U", "K">>>>,
  <<<<"g", "b">>,
      <<"U", "K">>>>,
  <<<<"e", "n", "g", "l", "a", "n", "d">>,
      <<"U", "K">>>>,
  <<<<"s", "c", "o", "t", "l", "a", "n", "d">>,
      <<"U", "K">>>>,
  <<<<"w", "a", "l", "e", "s">>,
      <<"U", "K">>>>,
  <<<<"n", "o", "r", "t", "h", "e", "r", "n", " ", "i", "r", "e", "l", "a", "n", "d">>,
      <<"U", "K">>>>,
  <<<<"c", "h", "i", "n", "a">>,
      <<"C", "h", "i", "n", "a">>>>,
  <<<<"c", "n">>,
      <<"C", "h", "i", "n", "a">>>>,
  <<<<"p", "r", "c">>,
      <<"C", "h", "i", "n", "a">>>>,
  <<<<"p", "e", "o", "p", "l", "e", "'", "s", " ", "r", "e", "p", "u", "b", "l", "i", "c", " ", "o", "f", " ", "c", "h", "i", "n", "a">>,
      <<"C", "h", "i", "n", "a">>>>,
  <<<<"j", "a", "p", "a", "n">>,
      <<"J", "a", "p", "a", "n">>>>,
  <<<<"j", "p">>,
      <<"J", "a", "p", "a", "n">>>>,
  <<<<"t", "a", "i", "w", "a", "n">>,
      <<"T", "a", "i", "w", "a", "n">>>>,
  <<<<"t", "w">>,
      <<"T", "a", "i", "w", "a", "n">>>>,
  <<<<"r", "e", "p", "u", "b", "l", "i", "c", " ", "o", "f", " ", "c", "h", "i", "n", "a">>,
      <<"T", "a", "i", "w", "a", "n">>>>,
  <<<<"i", "n", "d", "i", "a">>,
      <<"I", "n", "d", "i", "a">>>>,
  <<<<"i", "n">>,
      <<"I", "n", "d", "i", "a">>>>,
  <<<<"g", "e", "r", "m", "a", "n", "y">>,
      <<"G", "e", "r", "m", "a", "n", "y">>>>,
  <<<<"d", "e">>,
      <<"G", "e", "r", "m", "a", "n", "y">>>>,
  <<<<"d", "e", "u", "t", "s", "c", "h", "l", "a", "n", "d">>,
      <<"G", "e", "r", "m", "a", "n", "y">>>>,
  <<<<"f", "r", "a", "n", "c", "e">>,
      <<"F", "r", "a", "n", "c", "e">>>>,
  <<<<"f", "r">>,
      <<"F", "r", "a", "n", "c", "e">>>>,
  <<<<"c", "a", "n", "a", "d", "a">>,
      <<"C", "a", "n", "a", "d", "a">>>>,
  <<<<"c", "a">>,
      <<"C", "a", "n", "a", "d", "a">>>>,
  <<<<"a", "u", "s", "t", "r", "a", "l", "i", "a">>,
      <<"A", "u", "s", "t", "r", "a", "l", "i", "a">>>>,
  <<<<"a", "u">>,
      <<"A", "u", "s", "t", "r", "a", "l", "i", "a">>>>,
  <<<<"b", "r", "a", "z", "i", "l">>,
      <<"B", "r", "a", "z", "i", "l">>>>,
  <<<<"b", "r">>,
      <<"B", "r", "a", "z", "i", "l">>>>,
  <<<<"b", "r", "a", "s", "i", "l">>,
      <<"B", "r", "a", "z", "i", "l">>>>,
  <<<<"r", "u", "s", "s", "i", "a">>,
      <<"R", "u", "s", "s", "i", "a">>>>,
  <<<<"r", "u">>,
      <<"R", "u", "s", "s", "i", "a">>>>,
  <<<<"r", "u", "s", "s", "i", "a", "n", " ", "f", "e", "d", "e", "r", "a", "t", "i", "o", "n">>,
      <<"R", "u", "s", "s", "i", "a">>>>,
  <<<<"s", "o", "u", "t", "h", " ", "k", "o", "r", "e", "a">>,
      <<"S", "o", "u", "t", "h", " ", "K", "o", "r", "e", "a">>>>,
  <<<<"k", "o", "r", "e", "a">>,
      <<"S", "o", "u", "t", "h", " ", "K", "o", "r", "e", "a">>>>,
  <<<<"k", "r">>,
      <<"S", "o", "u", "t", "h", " ", "K", "o", "r", "e", "a">>>>,
  <<<<"r", "e", "p", "u", "b", "l", "i", "c", " ", "o", "f", " ", "k", "o", "r", "e", "a">>,
      <<"S", "o", "u", "t", "h", " ", "K", "o", "r", "e", "a">>>>,
  <<<<"s", "i", "n", "g", "a", "p", "o", "r", "e">>,
      <<"S", "i", "n", "g", "a", "p", "o", "r", "e">>>>,
  <<<<"s", "g">>,
      <<"S", "i", "n", "g", "a", "p", "o", "r", "e">>>>,
  <<<<"n", "e", "t", "h", "e", "r", "l", "a", "n", "d", "s">>,
      <<"N", "e", "t", "h", "e", "r", "l", "a", "n", "d", "s">>>>,
  <<<<"n", "l">>,
      <<"N", "e", "t", "h", "e", "r", "l", "a", "n", "d", "s">>>>,
  <<<<"h", "o", "l", "l", "a", "n", "d">>,
      <<"N", "e", "t", "h", "e", "r", "l", "a", "n", "d", "s">>>>,
  <<<<"s", "p", "a", "i", "n">>,
      <<"S", "p", "a", "i", "n">>>>,
  <<<<"e", "s">>,
      <<"S", "p", "a", "i", "n">>>>,
  <<<<"e", "s", "p", "a", "ñ", "a">>,
      <<"S", "p", "a", "i", "n">>>>,
  <<<<"i", "t", "a", "l", "y">>,
      <<"I", "t", "a", "l", "y">>>>,
  <<<<"i", "t">>,
      <<"I", "t", "a", "l", "y">>>>,
  <<<<"i", "t", "a", "l", "i", "a">>,
      <<"I", "t", "a", "l", "y">>>>,
  <<<<"p", "o", "l", "a", "n", "d">>,
      <<"P", "o", "l", "a", "n", "d">>>>,
  <<<<"p", "l">>,
      <<"P", "o", "l", "a", "n", "d">>>>,
  <<<<"p", "o", "l", "s", "k", "a">>,
      <<"P", "o", "l", "a", "n", "d">>>>,
  <<<<"s", "w", "e", "d", "e", "n">>,
      <<"S", "w", "e", "d", "e", "n">>>>,
  <<<<"s", "e">>,
      <<"S", "w", "e", "d", "e", "n">>>>,
  <<<<"s", "v", "e", "r", "i", "g", "e">>,
      <<"S", "w", "e", "d", "e", "n">>>>,
  <<<<"s", "w", "i", "t", "z", "e", "r", "l", "a", "n", "d">>,
      <<"S", "w", "i", "t", "z", "e", "r", "l", "a", "n", "d">>>>,
  <<<<"c", "h">>,
      <<"S", "w", "i", "t", "z", "e", "r", "l", "a", "n", "d">>>>,
  <<<<"i", "s", "r", "a", "e", "l">>,
      <<"I", "s", "r", "a", "e", "l">>>>,
  <<<<"i", "l">>,
      <<"I", "s", "r", "a", "e", "l">>>>,
  <<<<"m", "e", "x", "i", "c", "o">>,
      <<"M", "e", "x", "i", "c", "o">>>>,
  <<<<"m", "x">>,
      <<"M", "e", "x", "i", "c", "o">>>>,
  <<<<"m", "é", "x", "i", "c", "o">>,
      <<"M", "e", "x", "i", "c", "o">>>>,
  <<<<"a", "r", "g", "e", "n", "t", "i", "n", "a">>,
      <<"A", "r", "g", "e", "n", "t", "i", "n", "a">>>>,
  <<<<"a", "r">>,
      <<"A", "r", "g", "e", "n", "t", "i", "n", "a">>>>,
  <<<<"t", "u", "r", "k", "e", "y">>,
      <<"T", "u", "r", "k", "e", "y">>>>,
  <<<<"t", "ü", "r", "k", "i", "y", "e">>,
      <<"T", "u", "r", "k", "e", "y">>>>,
  <<<<"t", "r">>,
      <<"T", "u", "r", "k", "e", "y">>>>,
  <<<<"u", "k", "r", "a", "i", "n", "e">>,
      <<"U", "k", "r", "a", "i", "n", "e">>>>,
  <<<<"u", "a">>,
      <<"U", "k", "r", "a", "i", "n", "e">>>>,
  <<<<"i", "n", "d", "o", "n", "e", "s", "i", "a">>,
      <<"I", "n", "d", "o", "n", "e", "s", "i", "a">>>>,
  <<<<"i", "d">>,
      <<"I", "n", "d", "o", "n", "e", "s", "i", "a">>>>,
  <<<<"v", "i", "e", "t", "n", "a", "m">>,
      <<"V", "i", "e", "t", "n", "a", "m">>>>,
  <<<<"v", "n">>,
      <<"V", "i", "e", "t", "n", "a", "m">>>>,
  <<<<"t", "h", "a", "i", "l", "a", "n", "d">>,
      <<"T", "h", "a", "i", "l", "a", "n", "d">>>>,
  <<<<"t", "h">>,
      <<"T", "h", "a", "i", "l", "a", "n", "d">>>>,
  <<<<"p", "h", "i", "l", "i", "p", "p", "i", "n", "e", "s">>,
      <<"P", "h", "i", "l", "i", "p", "p", "i", "n", "e", "s">>>>,
  <<<<"p", "h">>,
      <<"P", "h", "i", "l", "i", "p", "p", "i", "n", "e", "s">>>>,
  <<<<"m", "a", "l", "a", "y", "s", "i", "a">>,
      <<"M", "a", "l", "a", "y", "s", "i", "a">>>>,
  <<<<"m", "y">>,
      <<"M", "a", "l", "a", "y", "s", "i", "a">>>>,
  <<<<"p", "a", "k", "i", "s", "t", "a", "n">>,
      <<"P", "a", "k", "i", "s", "t", "a", "n">>>>,
  <<<<"p", "k">>,
      <<"P", "a", "k", "i", "s", "t", "a", "n">>>>,
  <<<<"b", "a", "n", "g", "l", "a", "d", "e", "s", "h">>,
      <<"B", "a", "n", "g", "l", "a", "d", "e", "s", "h">>>>,
  <<<<"b", "d">>,
      <<"B", "a", "n", "g", "l", "a", "d", "e", "s", "h">>>>,
  <<<<"e", "g", "y", "p", "t">>,
      <<"E", "g", "y", "p", "t">>>>,
  <<<<"e", "g">>,
      <<"E", "g", "y", "p", "t">>>>,
  <<<<"n", "i", "g", "e", "r", "i", "a">>,
      <<"N", "i", "g", "e", "r", "i", "a">>>>,
  <<<<"n", "g">>,
      <<"N", "i", "g", "e", "r", "i", "a">>>>,
  <<<<"s", "o", "u", "t", "h", " ", "a", "f", "r", "i", "c", "a">>,
      <<"S", "o", "u", "t", "h", " ", "A", "f", "r", "i", "c", "a">>>>,
  <<<<"z", "a">>,
      <<"S", "o", "u", "t", "h", " ", "A", "f", "r", "i", "c", "a">>>>,
  <<<<"n", "e", "w", " ", "z", "e", "a", "l", "a", "n", "d">>,
      <<"N", "e", "w", " ", "Z", "e", "a", "l", "a", "n", "d">>>>,
  <<<<"n", "z">>,
      <<"N", "e", "w", " ", "Z", "e", "a", "l", "a", "n", "d">>>>,
  <<<<"i", "r", "e", "l", "a", "n", "d">>,
      <<"I", "r", "e", "l", "a", "n", "d">>>>,
  <<<<"i", "e">>,
      <<"I", "r", "e", "l", "a", "n", "d">>>>,
  <<<<"b", "e", "l", "g", "i", "u", "m">>,
      <<"B", "e", "l", "g", "i", "u", "m">>>>,
  <<<<"b", "e">>,
      <<"B", "e", "l", "g", "i", "u", "m">>>>,
  <<<<"a", "u", "s", "t", "r", "i", "a">>,
      <<"A", "u", "s", "t", "r", "i", "a">>>>,
  <<<<"a", "t">>,
      <<"A", "u", "s", "t", "r", "i", "a">>>>,
  <<<<"d", "e", "n", "m", "a", "r", "k">>,
      <<"D", "e", "n", "m", "a", "r", "k">>>>,
  <<<<"d", "k">>,
      <<"D", "e", "n", "m", "a", "r", "k">>>>,
  <<<<"n", "o", "r", "w", "a", "y">>,
      <<"N", "o", "r", "w", "a", "y">>>>,
  <<<<"n", "o">>,
      <<"N", "o", "r", "w", "a", "y">>>>,
  <<<<"f", "i", "n", "l", "a", "n", "d">>,
      <<"F", "i", "n", "l", "a", "n", "d">>>>,
  <<<<"f", "i">>,
      <<"F", "i", "n", "l", "a", "n", "d">>>>,
  <<<<"p", "o", "r", "t", "u", "g", "a", "l">>,
      <<"P", "o", "r", "t", "u", "g", "a", "l">>>>,
  <<<<"p", "t">>,
      <<"P", "o", "r", "t", "u", "g", "a", "l">>>>,
  <<<<"g", "r", "e", "e", "c", "e">>,
      <<"G", "r", "e", "e", "c", "e">>>>,
  <<<<"g", "r">>,
      <<"G", "r", "e", "e", "c", "e">>>>,
  <<<<"c", "z", "e", "c", "h", " ", "r", "e", "p", "u", "b", "l", "i", "c">>,
      <<"C", "z", "e", "c", "h", " ", "R", "e", "p", "u", "b", "l", "i", "c">>>>,
  <<<<"c", "z", "e", "c", "h", "i", "a">>,
      <<"C", "z", "e", "c", "h", " ", "R", "e", "p", "u", "b", "l", "i", "c">>>>,
  <<<<"c", "z">>,
      <<"C", "z", "e", "c", "h", " ", "R", "e", "p", "u", "b", "l", "i", "c">>>>,
  <<<<"r", "o", "m", "a", "n", "i", "a">>,
      <<"R", "o", "m", "a", "n", "i", "a">>>>,
  <<<<"r", "o">>,
      <<"R", "o", "m", "a", "n", "i", "a">>>>,
  <<<<"h", "u", "n", "g", "a", "r", "y">>,
      <<"H", "u", "n", "g", "a", "r", "y">>>>,
  <<<<"h", "u">>,
      <<"H", "u", "n", "g", "a", "r", "y">>>>
>>

CountryKeys ==
  {COUNTRY_STANDARDIZATION[i][1] : i \in DOMAIN COUNTRY_STANDARDIZATION}

\* what the object inherits from Object.prototype under a lower-case name:
\* its constructor (a function) and __proto__ (an object), neither a string
ObjectConstructor == <<"[Function: Object]">>
ObjectPrototype == <<"[Object: null prototype] {}">>
IsNative(v) == v \in {ObjectConstructor, ObjectPrototype}
Inherited ==
  {<<<<"c", "o", "n", "s", "t", "r", "u", "c", "t", "o", "r">>,
     ObjectConstructor>>,
   <<<<"_", "_", "p", "r", "o", "t", "o", "_", "_">>, ObjectPrototype>>}

\* COUNTRY_STANDARDIZATION[normalized]: an own property, else an inherited
\* one, else undefined
TableEntry(normalized) ==
  IF normalized \in CountryKeys
  THEN Some(COUNTRY_STANDARDIZATION[
              CHOOSE i \in DOMAIN COUNTRY_STANDARDIZATION :
                COUNTRY_STANDARDIZATION[i][1] = normalized][2])
  ELSE IF \E m \in Inherited : m[1] = normalized
  THEN Some((CHOOSE m \in Inherited : m[1] = normalized)[2])
  ELSE Undefined

\* word.charAt(0).toUpperCase() + word.slice(1).toLowerCase()
TitleCase(word) ==
  IF word = <<>> THEN <<>>
  ELSE <<ToUpperChar(word[1])>> \o ToLowerCase(Tail(word))

\* standardizeCountry(country): country is Undefined (null or undefined) or
\* Some(value); the result is Undefined (null), Some(value) or Raised
StandardizeCountry(country) ==
  IF country = Undefined \/ country = Some(<<>>) THEN Undefined
  ELSE IF IsNative(country[1]) THEN Raised  \* country.trim is not a function
  ELSE LET normalized == ToLowerCase(Trim(country[1]))
           standardized == TableEntry(normalized)
           words == SplitWhitespace(Trim(country[1]))
       IN  IF normalized = <<>> THEN Undefined
           ELSE IF standardized /= Undefined THEN standardized
           ELSE Some(Join([i \in 1..Len(words) |-> TitleCase(words[i])],
                          <<" ">>))

\* most spaces in front of, behind and (plus one) between the words of an
\* input of standardizeCountry
MaxPad == 1

\* names no entry of the table matches, and the two a plain object inherits
CountryExtras ==
  {<<>>,
   <<"F", "r", "e", "e", "d", "o", "n", "i", "a">>,
   <<"s", "a", "o", " ", "t", "o", "m", "e">>,
   <<"c", "o", "n", "s", "t", "r", "u", "c", "t", "o", "r">>,
   <<"_", "_", "p", "r", "o", "t", "o", "_", "_">>}
CountryBases ==
  CountryKeys
    \cup {COUNTRY_STANDARDIZATION[i][2] : i \in DOMAIN COUNTRY_STANDARDIZATION}
    \cup CountryExtras
\* what separates the words of an input
WordGaps == {Spaces(n) : n \in 1..(MaxPad + 1)} \cup {<<"\t">>}
\* object.country as the language model returns it (z.string().nullable()):
\* null, or a name in any case, padded and spaced in any way
CountryInputs ==
  {Undefined}
    \cup {Some(Spaces(l) \o Join(SplitWhitespace(b), w) \o Spaces(r)) :
            b \in CountryBases, w \in WordGaps, l \in 0..MaxPad, r \in 0..MaxPad}
    \cup {Some(Spaces(l) \o ToUpperCase(Join(SplitWhitespace(b), w)) \o Spaces(r)) :
            b \in CountryBases, w \in WordGaps, l \in 0..MaxPad, r \in 0..MaxPad}

(***************************************************************************)
(* The export: parseEmployers, parseSocialAccounts, escapeCSV              *)
(***************************************************************************)
\* most entries of an employers list, of a social-accounts list, and most
\* characters of a value given to escapeCSV
MaxEmployers == 3
MaxSocial == 2
MaxCsvLen == 3

\* the text of a VARCHAR column: the empty string, a text JSON.parse rejects,
\* or the JSON text of a value; a value is <<"null">>, <<"number">>,
\* <<"string">>, <<"object">> or <<"array", items>>
EmptyText == <<"empty">>
Malformed == <<"malformed">>
JsonText(v) == <<"json", v>>
JsonArray(items) == <<"array", items>>
NonArrays == {<<"null">>, <<"number">>, <<"string">>, <<"object">>}

\* JSON.parse(String(text)): the value, or a SyntaxError
JsonParse(text) == IF text[1] = "json" THEN text[2] ELSE Raised

\* !x of a column: NULL or the empty string, for a column holding a text
\* and for one holding a string of characters
Falsy(text) == text = Undefined \/ text = EmptyText

CommaSpace == <<",", " ">>
ColonSpace == <<":", " ">>
Http == <<"h", "t", "t", "p">>
Linkedin == <<"l", "i", "n", "k", "e", "d", "i", "n">>
Twitter == <<"t", "w", "i", "t", "t", "e", "r">>
TwitterBase ==
  <<"h", "t", "t", "p", "s", ":", "/", "/", "t", "w", "i", "t", "t", "e",
    "r", ".", "c", "o", "m", "/">>

\* mutant: an entry without the flag counts as current
IsCurrentUnlessFalse(e) == e.current /= Some(FALSE)
\* (e) => e.current, with current: true, false or missing
IsCurrent(e) == e.current = Some(TRUE)

NamesOf(list) == [i \in 1..Len(list) |-> list[i].name]

\* parseEmployers(employersJson)
ParseEmployers(json) ==
  LET nothing == [current |-> <<>>, past |-> <<>>]
  IN  IF Falsy(json) THEN nothing
      ELSE LET employers == JsonParse(json)
           IN  IF employers = Raised THEN nothing
               \* employers.filter is not a function, or employers is null:
               \* a TypeError inside the try
               ELSE IF employers[1] /= "array" THEN nothing
               ELSE [current |->
                       Join(NamesOf(SelectSeq(employers[2], IsCurrent)),
                            CommaSpace),
                     past |->
                       Join(NamesOf(SelectSeq(employers[2],
                                              LAMBDA e : ~IsCurrent(e))),
                            CommaSpace)]

\* mutant: the provider compared as written
ProviderOfExact(account) == account.provider
\* const provider = account.provider.toLowerCase()
ProviderOf(account) == ToLowerCase(account.provider)

\* mutant: a later entry replaces the value
KeepFirstOverwritten(current, url) == url
\* if (!linkedin) linkedin = account.url, and the same for twitter
KeepFirst(current, url) == IF current = <<>> THEN url ELSE current

\* mutant: the base URL goes in front of every value
TwitterUrlAlways(twitter) ==
  IF twitter /= <<>> THEN TwitterBase \o twitter ELSE twitter
\* if (twitter && !twitter.startsWith("http")) twitter = `https://twitter.com/${twitter}`
TwitterUrl(twitter) ==
  IF twitter /= <<>> /\ ~StartsWith(twitter, Http)
  THEN TwitterBase \o twitter ELSE twitter

\* for (const account of accounts), from entry k on
RECURSIVE SocialLoop(_, _, _)
SocialLoop(accounts, k, acc) ==
  IF k > Len(accounts) THEN acc
  ELSE LET account == accounts[k]
           provider == ProviderOf(account)
       IN  SocialLoop(accounts, k + 1,
             IF provider = Linkedin
             THEN [acc EXCEPT !.linkedin = KeepFirst(@, account.url)]
             ELSE IF provider = Twitter
             THEN [acc EXCEPT !.twitter = KeepFirst(@, account.url)]
             ELSE [acc EXCEPT !.others =
                     Append(@, account.provider \o ColonSpace \o account.url)])

\* parseSocialAccounts(socialJson, existingLinkedin, existingTwitter)
ParseSocialAccounts(json, linkedinUrl, twitterUsername) ==
  LET start == [linkedin |-> IF FalsyString(linkedinUrl) THEN <<>>
                             ELSE linkedinUrl[1],
                twitter |-> IF FalsyString(twitterUsername) THEN <<>>
                            ELSE twitterUsername[1],
                others |-> <<>>]
      accounts == IF Falsy(json) THEN Raised ELSE JsonParse(json)
      \* a text that does not parse, or a value for...of cannot iterate or
      \* whose elements have no provider: the catch, before any entry is read
      end == IF accounts = Raised \/ accounts[1] /= "array" THEN start
             ELSE SocialLoop(accounts[2], 1, start)
  IN  [linkedin |-> end.linkedin,
       twitter |-> TwitterUrl(end.twitter),
       others |-> Join(end.others, CommaSpace)]

\* str.replace(/"/g, '""')
RECURSIVE DoubleQuotes(_)
DoubleQuotes(str) ==
  IF str = <<>> THEN <<>>
  ELSE (IF str[1] = "\"" THEN <<"\"", "\"">> ELSE <<str[1]>>)
         \o DoubleQuotes(Tail(str))

\* str.includes(",") || str.includes('"') || str.includes("\n")
NeedsQuotes(str) ==
  Includes(str, ",") \/ Includes(str, "\"") \/ Includes(str, "\n")

\* escapeCSV(value): value is Undefined (null or undefined) or Some(string)
EscapeCSV(value) ==
  IF value = Undefined THEN <<>>
  ELSE IF NeedsQuotes(value[1])
  THEN <<"\"">> \o DoubleQuotes(value[1]) \o <<"\"">>
  ELSE value[1]

\* a reader of one CSV field (RFC 4180): an escaped field runs from its
\* opening quote to the first quote that is not doubled; a non-escaped field
\* ends in front of a comma or a line break (CR, LF). The result is
\* <<field, rest>>, the rest being the text the field did not use
Unterminated == <<"unterminated">>
RECURSIVE ReadEscaped(_, _)
ReadEscaped(text, field) ==
  IF text = <<>> THEN <<field, Unterminated>>
  ELSE IF text[1] = "\""
  THEN IF Len(text) >= 2 /\ text[2] = "\""
       THEN ReadEscaped(SubSeq(text, 3, Len(text)), Append(field, "\""))
       ELSE <<field, Tail(text)>>
  ELSE ReadEscaped(Tail(text), Append(field, text[1]))
RECURSIVE ReadNonEscaped(_, _)
ReadNonEscaped(text, field) ==
  IF text = <<>> \/ text[1] \in {",", "\r", "\n"} THEN <<field, text>>
  ELSE ReadNonEscaped(Tail(text), Append(field, text[1]))
ReadCSVField(text) ==
  IF text /= <<>> /\ text[1] = "\"" THEN ReadEscaped(Tail(text), <<>>)
  ELSE ReadNonEscaped(text, <<>>)

\* the inputs
EmployerNames == {<<"A", "c", "m", "e">>, <<"B">>}
Employers == [name : EmployerNames, current : {Some(TRUE), Some(FALSE), Undefined}]
EmployerTexts ==
  {Undefined, EmptyText, Malformed}
    \cup {JsonText(v) : v \in NonArrays}
    \cup {JsonText(JsonArray(l)) :
            l \in UNION {[1..n -> Employers] : n \in 0..MaxEmployers}}

Providers ==
  {Linkedin, <<"L", "i", "n", "k", "e", "d", "I", "n">>,
   Twitter, <<"T", "W", "I", "T", "T", "E", "R">>, <<"n", "p", "m">>}
SocialUrls == {Http \o <<":", "a">>, <<"b">>}
SocialAccounts == [provider : Providers, url : SocialUrls]
SocialTexts ==
  {Undefined, EmptyText, Malformed}
    \cup {JsonText(v) : v \in {<<"null">>, <<"object">>}}
    \cup {JsonText(JsonArray(l)) :
            l \in UNION {[1..n -> SocialAccounts] : n \in 0..MaxSocial}}
ExistingLinkedins == {Undefined, Some(<<>>), Some(Http \o <<":", "L">>)}
ExistingTwitters ==
  {Undefined, Some(<<>>), Some(<<"j", "o">>), Some(Http \o <<"s", "t", "e", "r">>)}

CsvChars == {"a", ",", "\"", "\n", "\r"}
CsvValues ==
  {Undefined} \cup {Some(s) : s \in UNION {[1..n -> CsvChars] : n \in 0..MaxCsvLen}}

(***************************************************************************)
(* The field functions, applied                                            *)
(***************************************************************************)
FieldFrame ==
  UNCHANGED <<storeVars, runVars, clientVars, hostVars, recordVars, dumpVars>>

\* no record procedure followed request by request, no dump made
RecordAtRest ==
  /\ profile = Undefined
  /\ repos = Undefined
  /\ commits = Undefined
  /\ requests = <<>>
DumpAtRest ==
  /\ dumpRows = <<>>
  /\ csv = Undefined

FieldsAtRest ==
  /\ fpc = "rest"
  /\ objectCountry = Undefined
  /\ enrichedCountry = Undefined
  /\ storedCountry = Undefined
  /\ countryAgain = Undefined
  /\ employersJson = Undefined
  /\ employersResult = Undefined
  /\ socialJson = Undefined
  /\ existingLinkedin = Undefined
  /\ existingTwitter = Undefined
  /\ socialResult = Undefined
  /\ csvValue = Undefined
  /\ csvField = Undefined
  /\ RecordAtRest
  /\ DumpAtRest

\* extractProfileData: return { ...object, country: standardizeCountry(object.country) }
ExtractCountry ==
  /\ fpc = "country"
  /\ enrichedCountry' = StandardizeCountry(objectCountry)
  /\ fpc' = "extracted"
  /\ UNCHANGED <<objectCountry, storedCountry, countryAgain, exportVars>>
  /\ FieldFrame

\* runEnrich: INSERT INTO enriched_profiles (..., country, ...) with
\* enrichedData.country; a value that is no string is bound as it is or makes
\* the statement raise
InsertCountry ==
  /\ fpc = "extracted"
  /\ \/ /\ storedCountry' = enrichedCountry
        /\ fpc' = "stored"
     \/ /\ enrichedCountry /= Undefined
        /\ IsNative(enrichedCountry[1])
        /\ storedCountry' = storedCountry
        /\ fpc' = "insert_raised"
  /\ UNCHANGED <<objectCountry, enrichedCountry, countryAgain, exportVars>>
  /\ FieldFrame

\* standardizeCountry applied to its own result
StandardizeAgain ==
  /\ fpc = "extracted"
  /\ countryAgain' = StandardizeCountry(enrichedCountry)
  /\ fpc' = "again"
  /\ UNCHANGED <<objectCountry, enrichedCountry, storedCountry, exportVars>>
  /\ FieldFrame

\* const { current, past } = parseEmployers(row[5])
ExportEmployers ==
  /\ fpc = "employers"
  /\ employersResult' = ParseEmployers(employersJson)
  /\ fpc' = "employers_done"
  /\ UNCHANGED <<countryVars, employersJson, socialJson, existingLinkedin,
                 existingTwitter, socialResult, csvValue, csvField>>
  /\ FieldFrame

\* const { linkedin, twitter, others } = parseSocialAccounts(row[10], row[6], row[9])
ExportSocial ==
  /\ fpc = "social"
  /\ socialResult' =
       ParseSocialAccounts(socialJson, existingLinkedin, existingTwitter)
  /\ fpc' = "social_done"
  /\ UNCHANGED <<countryVars, employersJson, employersResult, socialJson,
                 existingLinkedin, existingTwitter, csvValue, csvField>>
  /\ FieldFrame

\* escapeCSV(value) for one value of the row
ExportEscape ==
  /\ fpc = "csv"
  /\ csvField' = EscapeCSV(csvValue)
  /\ fpc' = "csv_done"
  /\ UNCHANGED <<countryVars, employersJson, employersResult, socialJson,
                 existingLinkedin, existingTwitter, socialResult, csvValue>>
  /\ FieldFrame

\* the store and the runs, untouched by the client specifications
StoreAtRest ==
  /\ stargazers = <<>>
  /\ enriched_profiles = <<>>
  /\ pc = "idle"
  /\ allStargazers = <<>>
  /\ rerun = FALSE
  /\ worker = FALSE
  /\ limit = Undefined
  /\ stargazerList = <<>>
  /\ existingIds = {}
  /\ fi = 1
  /\ newCount = 0
  /\ startLen = 0
  /\ page = 1
  /\ pagesRequested = <<>>
  /\ pagesReceived = <<>>
  /\ totalPending = 0
  /\ batchSize = 0
  /\ pendingRows = <<>>
  /\ ri = 1
  /\ enriched = 0
  /\ failed = 0
  /\ thrownBy = None
  /\ sample = Undefined
  /\ candidateEmails = <<>>
  /\ socialAccounts = <<>>

\* the process before main() has run, every key set
HostAtRest ==
  /\ env = [GITHUB_TOKEN |-> TRUE, OPENROUTER_API_KEY |-> TRUE]
  /\ host = "start"
  /\ cycles = <<>>
  /\ others = NoOthers

InitClient == StoreAtRest /\ ClientAtRest /\ HostAtRest /\ FieldsAtRest

NextClient ==
  \/ Request
  \/ AdaptiveWait
  \/ Respond
  \/ RetryAfterReset
  \/ PeerRespond

\* every await of request() completes: timers fire and responses arrive
SpecClient ==
  /\ InitClient
  /\ [][NextClient]_vars
  /\ WF_vars(AdaptiveWait)
  /\ WF_vars(Respond)
  /\ WF_vars(RetryAfterReset)

(***************************************************************************)
(* Pacing: requests separated by the delay of adaptiveWait, each consuming *)
(* one unit of the quota                                                   *)
(***************************************************************************)
PaceRemaining == {0, 19, 20, 21, 22, 25, 60, 499, 500, 501, 5000}
PaceReset == {0, 1, 2, 3, 120, 3600}

InitPace ==
  /\ StoreAtRest
  /\ HostAtRest
  /\ FieldsAtRest
  /\ rateLimitRemaining \in PaceRemaining
  /\ rateLimitReset \in PaceReset
  /\ requestCount = 0
  /\ peer = NewClient
  /\ now = 2000
  /\ cpc = "adaptiveWait"
  /\ delay = 0
  /\ endpoint = "/users/a"
  /\ headers = Undefined
  /\ wire = <<>>
  /\ response = NoResponse
  /\ result = None

\* the request is answered: it consumed one unit of the quota
PacedResponse ==
  /\ cpc = "fetch"
  /\ requestCount < MaxPaced
  /\ rateLimitRemaining > 0
  /\ rateLimitRemaining' = rateLimitRemaining - 1
  /\ requestCount' = requestCount + 1
  /\ cpc' = "adaptiveWait"
  /\ wire' = <<>>
  /\ UNCHANGED <<rateLimitReset, peer, now, delay, endpoint, headers, response,
                 result>>
  /\ StoreFrame

NextPace ==
  \/ AdaptiveWait
  \/ PacedResponse

SpecPace == InitPace /\ [][NextPace]_vars

(***************************************************************************)
(* One runFetch on an empty store against a paged upstream list            *)
(***************************************************************************)
InitPages == StoreAtRest /\ ClientAtRest /\ HostAtRest /\ FieldsAtRest

NextPages ==
  \/ FetchStartPaged
  \/ GetStargazersPage
  \/ FetchExisting
  \/ FetchInsert

\* one runFetch on an empty store against a paged upstream
SpecPages == InitPages /\ [][NextPages]_vars

(***************************************************************************)
(* One runEnrich of the enrich command, on stores of pending records and   *)
(* with each option: batch size, selection and the records processed       *)
(***************************************************************************)
\* largest table of which the model follows every sampled selection, and
\* size of the small tables of the batch runs
MaxBatchRows == 3
\* the records of a batch run, counted from the first, whose requests and
\* statements may raise; those of the later records succeed
MaxFaulty == 1

\* a store of runEnrich: done stargazers enriched by an earlier run, each
\* with its profile row, then n pending ones
BatchStargazers(done, n) ==
  [i \in 1..(done + n) |->
     IF i <= done
     THEN [NewStargazerRow(GitHubStargazer(i))
             EXCEPT !.enrichment_status = "completed", !.enriched_at = "now"]
     ELSE NewStargazerRow(GitHubStargazer(i))]
BatchProfiles(done) ==
  [i \in 1..done |->
     [github_id |-> i, social_accounts |-> SocialAccountsColumn(FALSE, <<>>)]]

\* the enrich commands followed: the store they find and their options
\* --limit and --sample (in percent). On the small tables every option, on
\* the large ones the commands of the documented examples
BatchLimits == {Undefined, Some(0), Some(1), Some(2)}
BatchSamples == {Undefined, Some(-10), Some(0), Some(10), Some(50), Some(100),
                 Some(150)}
BatchRuns ==
  [done : {0, 1}, pending : 0..MaxBatchRows, limit : BatchLimits,
   sample : BatchSamples]
  \cup [done : {0}, pending : {200}, limit : {Undefined},
        sample : {Some(10)}]
  \cup [done : {0}, pending : {200}, limit : {Some(20)},
        sample : {Undefined}]
  \cup [done : {0}, pending : {501}, limit : {Undefined, Some(600)},
        sample : {Undefined}]

InitBatch ==
  /\ HostAtRest
  /\ FieldsAtRest
  /\ ClientAtRest
  /\ \E run \in BatchRuns :
       /\ stargazers = BatchStargazers(run.done, run.pending)
       /\ enriched_profiles = BatchProfiles(run.done)
       /\ limit = run.limit
       /\ sample = run.sample
  /\ pc = "idle"
  /\ allStargazers = <<>>
  /\ rerun = FALSE
  /\ worker = FALSE
  /\ stargazerList = <<>>
  /\ existingIds = {}
  /\ fi = 1
  /\ newCount = 0
  /\ startLen = 0
  /\ page = 1
  /\ pagesRequested = <<>>
  /\ pagesReceived = <<>>
  /\ totalPending = 0
  /\ batchSize = 0
  /\ pendingRows = <<>>
  /\ ri = 1
  /\ enriched = 0
  /\ failed = 0
  /\ thrownBy = None
  /\ candidateEmails = <<>>
  /\ socialAccounts = <<>>

\* the enrich command of the process runs runEnrich with its options
EnrichBatch == EnrichCalled({limit}, {sample})

\* the sampled selection is followed on tables of at most MaxBatchRows
\* pending rows
BatchSelected == SampleValid(sample) => totalPending <= MaxBatchRows
\* from record MaxFaulty + 1 on no request and no statement raises
BatchFaults ==
  ri > MaxFaulty => (thrownBy' = None /\ pc' \notin {"e_catch", "e_raised"})

\* one runEnrich of a command, from its invocation to its end
NextBatch ==
  \/ EnrichBatch
  \/ BatchSelected /\ EnrichSelect
  \/ EnrichProfile /\ BatchFaults
  \/ EnrichRepos /\ BatchFaults
  \/ EnrichCommits /\ BatchFaults
  \/ EnrichSocial /\ BatchFaults
  \/ EnrichExtract /\ BatchFaults
  \/ EnrichInsert /\ BatchFaults
  \/ EnrichUpdate /\ BatchFaults
  \/ EnrichCatch /\ BatchFaults

SpecBatch == InitBatch /\ [][NextBatch]_vars

(***************************************************************************)
(* The host process of index.ts: an initial cycle, then one cycle per tick *)
(* of the hourly timer                                                     *)
(***************************************************************************)
\* most runCycle calls the host starts
MaxCycles == 4
\* const HOUR_MS = 60 * 60 * 1000
HOUR_MS == 60 * 60 * 1000

\* the positions of a runCycle call: awaiting a GitHub request or a store
\* statement of runFetch, then of runEnrich, or settled
Active == {"f_request", "f_store", "e_request", "e_store"}
Settled == {"resolved", "rejected"}

\* process.exit(code)
Exited(code) == IF code = 0 THEN "exited(0)" ELSE "exited(1)"

\* mutant: the error of a scheduled cycle ends the process
OnScheduledFailureFatal(h) == Exited(1)
\* the timer callback: try { await runCycle(...) } catch (error) {
\* console.error(...) }: the host goes on
OnScheduledFailure(h) == h

HostFrame ==
  UNCHANGED <<storeVars, runVars, quotaVars, peer, cpc, delay, callVars,
              fieldVars>>

\* main(): getEnvConfig, the schema, then await runCycle(...)
HostStart ==
  /\ host = "start"
  /\ \/ /\ host' = "initial"
        /\ cycles' = <<"f_request">>
     \/ \* getEnvConfig or the schema initialisation raises: process.exit(1)
        /\ host' = Exited(1)
        /\ cycles' = cycles
  /\ UNCHANGED <<env, others, now>>
  /\ HostFrame

\* the awaited initial cycle settles: setInterval is armed, or main() rejects
\* and the process exits
HostAfterInitial ==
  /\ host = "initial"
  /\ cycles[1] \in Settled
  /\ host' = IF cycles[1] = "resolved" THEN "scheduled" ELSE Exited(1)
  /\ UNCHANGED <<env, others, cycles, now>>
  /\ HostFrame

\* the timer fires, one interval after it was armed or fired last: the
\* callback calls runCycle, whatever the earlier cycles are doing
TimerFires ==
  /\ host = "scheduled"
  /\ Len(cycles) < MaxCycles
  /\ cycles' = Append(cycles, "f_request")
  /\ now' = now + HOUR_MS
  /\ UNCHANGED <<env, others, host>>
  /\ HostFrame

\* a cycle goes on to its next await: runFetch (requests, then the store),
\* runEnrich (per record requests, then the store), resolved or rejected
CycleStep ==
  /\ host \in {"initial", "scheduled"}
  /\ \E c \in 1..Len(cycles) :
       \E to \in Active \cup Settled :
         /\ \/ cycles[c] = "f_request" /\ to \in {"f_request", "f_store", "rejected"}
            \/ cycles[c] = "f_store" /\ to \in {"f_store", "e_store", "rejected"}
            \/ cycles[c] = "e_store"
                 /\ to \in {"e_store", "e_request", "resolved", "rejected"}
            \/ cycles[c] = "e_request" /\ to \in {"e_request", "e_store"}
         /\ to /= cycles[c]
         /\ cycles' = [cycles EXCEPT ![c] = to]
         \* the initial cycle is awaited by main() (HostAfterInitial); the
         \* others are awaited inside the try of the timer callback
         /\ host' = IF to = "rejected" /\ c > 1
                    THEN OnScheduledFailure(host) ELSE host
  /\ UNCHANGED <<env, others, now>>
  /\ HostFrame

\* SIGINT or SIGTERM: once the handlers are registered (after the initial
\* cycle) closeDb and process.exit(0); before, the signal kills the process
Shutdown ==
  /\ host \in {"initial", "scheduled"}
  /\ host' = IF host = "scheduled" THEN Exited(0) ELSE "killed"
  /\ UNCHANGED <<env, others, cycles, now>>
  /\ HostFrame

InitHost == StoreAtRest /\ ClientAtRest /\ HostAtRest /\ FieldsAtRest

NextHost ==
  \/ HostStart
  \/ HostAfterInitial
  \/ TimerFires
  \/ CycleStep
  \/ Shutdown

SpecHost == InitHost /\ [][NextHost]_vars

(***************************************************************************)
(* standardizeCountry on the countries an extraction can return            *)
(***************************************************************************)
InitCountry ==
  /\ StoreAtRest /\ ClientAtRest /\ HostAtRest
  /\ fpc = "country"
  /\ objectCountry \in CountryInputs
  /\ enrichedCountry = Undefined
  /\ storedCountry = Undefined
  /\ countryAgain = Undefined
  /\ employersJson = Undefined
  /\ employersResult = Undefined
  /\ socialJson = Undefined
  /\ existingLinkedin = Undefined
  /\ existingTwitter = Undefined
  /\ socialResult = Undefined
  /\ csvValue = Undefined
  /\ csvField = Undefined
  /\ RecordAtRest
  /\ DumpAtRest

NextCountry ==
  \/ ExtractCountry
  \/ InsertCountry
  \/ StandardizeAgain

SpecCountry == InitCountry /\ [][NextCountry]_vars

(***************************************************************************)
(* The export helpers on one row of the export query                       *)
(***************************************************************************)
InitExport ==
  /\ StoreAtRest /\ ClientAtRest /\ HostAtRest
  /\ RecordAtRest
  /\ DumpAtRest
  /\ objectCountry = Undefined
  /\ enrichedCountry = Undefined
  /\ storedCountry = Undefined
  /\ countryAgain = Undefined
  /\ employersResult = Undefined
  /\ socialResult = Undefined
  /\ csvField = Undefined
  /\ \/ /\ fpc = "employers"
        /\ employersJson \in EmployerTexts
        /\ socialJson = Undefined
        /\ existingLinkedin = Undefined
        /\ existingTwitter = Undefined
        /\ csvValue = Undefined
     \/ /\ fpc = "social"
        /\ employersJson = Undefined
        /\ socialJson \in SocialTexts
        /\ existingLinkedin \in ExistingLinkedins
        /\ existingTwitter \in ExistingTwitters
        /\ csvValue = Undefined
     \/ /\ fpc = "csv"
        /\ employersJson = Undefined
        /\ socialJson = Undefined
        /\ existingLinkedin = Undefined
        /\ existingTwitter = Undefined
        /\ csvValue \in CsvValues

NextExport ==
  \/ ExportEmployers
  \/ ExportSocial
  \/ ExportEscape

SpecExport == InitExport /\ [][NextExport]_vars

(***************************************************************************)
(* One record of runEnrich, request by request                             *)
(***************************************************************************)
\* longest list of repositories and of commits the model follows
MaxRepos == 2
MaxCommits == 2

AddrB == <<"b", "@", "x", ".", "i", "o">>
AddrNoreply == <<"a", "@", "n", "o", "r", "e", "p", "l", "y", ".", "x">>
Noreply == <<"n", "o", "r", "e", "p", "l", "y">>

\* String.prototype.includes
IncludesString(s, sub) ==
  \E i \in 0..(Len(s) - Len(sub)) : SubSeq(s, i + 1, i + Len(sub)) = sub

\* the logins owning the listed repositories: the user's and another one
Logins == {1, 2}
\* what getUserRepos may return: each repository with its owner, its name
\* (here its place in the list) and its fork flag
RepoLists ==
  UNION {{[k \in 1..n |-> [owner |-> f[k].owner, name |-> k, fork |-> f[k].fork]] :
            f \in [1..n -> [owner : Logins, fork : BOOLEAN]]} : n \in 0..MaxRepos}
\* c.commit.author?.email and c.commit.committer?.email: undefined for a
\* commit without author, the empty string, addresses
AuthorEmails == {Undefined, Some(AddrA), Some(AddrNoreply)}
CommitterEmails == {Some(<<>>), Some(AddrA), Some(AddrB)}
CommitLists ==
  UNION {[1..n -> [author : AuthorEmails, committer : CommitterEmails]] :
           n \in 0..MaxCommits}

\* username of the record in hand
Username == pendingRows[ri].username
\* one call of the GitHub client: the endpoint it names
Call(api, user, repo) == [api |-> api, user |-> user, repo |-> repo]

\* repos.find((r) => r.owner.login === username && !r.fork)
FindOwned(list, username) ==
  LET hits == {k \in 1..Len(list) : list[k].owner = username /\ ~list[k].fork}
  IN  IF hits = {} THEN Undefined
      ELSE Some(list[CHOOSE k \in hits : \A j \in hits : k <= j])

\* commits.flatMap((c) => [c.commit.author?.email, c.commit.committer?.email])
RECURSIVE CommitAddresses(_)
CommitAddresses(list) ==
  IF list = <<>> THEN <<>>
  ELSE <<list[1].author, list[1].committer>> \o CommitAddresses(Tail(list))

\* .filter((e) => !!e && !e.includes("noreply"))
KeepAddress(e) == ~FalsyString(e) /\ ~IncludesString(e[1], Noreply)

\* [...new Set(list)]: the first occurrence of each element, in order
RECURSIVE Distinct(_)
Distinct(list) ==
  IF list = <<>> THEN <<>>
  ELSE LET front == Distinct(SubSeq(list, 1, Len(list) - 1))
           last == list[Len(list)]
       IN  IF \E i \in 1..Len(front) : front[i] = last THEN front
           ELSE Append(front, last)

\* mutant: the filtered addresses without the Set
CandidateEmailsRepeated(list) ==
  LET kept == SelectSeq(CommitAddresses(list), KeepAddress)
  IN  [i \in 1..Len(kept) |-> kept[i][1]]
\* candidateEmails = [...new Set(commits.flatMap(...).filter(...))]
CandidateEmailsOf(list) ==
  LET kept == SelectSeq(CommitAddresses(list), KeepAddress)
  IN  Distinct([i \in 1..Len(kept) |-> kept[i][1]])

RecordFrame ==
  UNCHANGED <<storeVars, clientVars, hostVars, fpc, countryVars, exportVars,
              dumpVars, fetchVars, sample, totalPending, batchSize,
              pendingRows, ri, enriched, failed>>

\* const profile = await github.getUserProfile(username);
\* let candidateEmails = []; if (!profile.email)
RecordProfile ==
  /\ pc = "e_profile"
  /\ requests' = Append(requests, Call("profile", Username, 0))
  /\ \/ \E email \in ProfileEmails :
          /\ profile' = Some([email |-> email])
          /\ thrownBy' = None
          /\ pc' = IF EmailMissing(email) THEN "e_repos" ELSE "e_social"
     \/ \* the request raises
        /\ profile' = profile
        /\ thrownBy' = "profile"
        /\ pc' = OnProfileError
  /\ candidateEmails' = <<>>
  /\ UNCHANGED <<repos, commits, socialAccounts>>
  /\ RecordFrame

\* const repos = await github.getUserRepos(username);
\* const ownedRepo = repos.find(...); if (ownedRepo)
RecordRepos ==
  /\ pc = "e_repos"
  /\ requests' = Append(requests, Call("repos", Username, 0))
  /\ \/ \E list \in RepoLists :
          /\ repos' = Some(list)
          /\ thrownBy' = None
          /\ pc' = IF FindOwned(list, Username) /= Undefined THEN "e_commits"
                   ELSE "e_social"
     \/ \* the request raises
        /\ repos' = repos
        /\ thrownBy' = "repos"
        /\ pc' = OnEmailError
  /\ UNCHANGED <<profile, commits, candidateEmails, socialAccounts>>
  /\ RecordFrame

\* const commits = await github.getRepoCommits(ownedRepo.owner.login,
\* ownedRepo.name, username); candidateEmails = [...]
RecordCommits ==
  /\ pc = "e_commits"
  /\ LET ownedRepo == FindOwned(repos[1], Username)[1]
     IN  requests' = Append(requests,
                            Call("commits", ownedRepo.owner, ownedRepo.name))
  /\ \/ \E list \in CommitLists :
          /\ commits' = Some(list)
          /\ candidateEmails' = CandidateEmailsOf(list)
          /\ thrownBy' = None
          /\ pc' = "e_social"
     \/ \* the request raises
        /\ commits' = commits
        /\ candidateEmails' = candidateEmails
        /\ thrownBy' = "commits"
        /\ pc' = OnEmailError
  /\ UNCHANGED <<profile, repos, socialAccounts>>
  /\ RecordFrame

\* let socialAccounts = []; socialAccounts = await
\* github.getUserSocialAccounts(username); then extractProfileData(profile,
\* candidateEmails) is called
RecordSocial ==
  /\ pc = "e_social"
  /\ requests' = Append(requests, Call("social", Username, 0))
  /\ \/ /\ socialAccounts' = SocialAccountsOf(Username)
        /\ thrownBy' = None
        /\ pc' = "e_extract"
     \/ \* the request raises
        /\ socialAccounts' = <<>>
        /\ thrownBy' = "social"
        /\ pc' = OnSocialError
  /\ UNCHANGED <<profile, repos, commits, candidateEmails>>
  /\ RecordFrame

\* the procedure of the one pending record of a batch is about to start
InitRecord ==
  /\ HostAtRest
  /\ FieldsAtRest
  /\ ClientAtRest
  /\ stargazers = <<NewStargazerRow(GitHubStargazer(1))>>
  /\ enriched_profiles = <<>>
  /\ pc = "e_profile"
  /\ allStargazers = <<>>
  /\ rerun = FALSE
  /\ worker = FALSE
  /\ limit = Undefined
  /\ stargazerList = <<>>
  /\ existingIds = {}
  /\ fi = 1
  /\ newCount = 0
  /\ startLen = 0
  /\ page = 1
  /\ pagesRequested = <<>>
  /\ pagesReceived = <<>>
  /\ sample = Undefined
  /\ totalPending = 1
  /\ batchSize = ENRICHMENT_BATCH_SIZE
  /\ pendingRows = PendingRowsOf(stargazers)
  /\ ri = 1
  /\ enriched = 0
  /\ failed = 0
  /\ thrownBy = None
  /\ candidateEmails = <<>>
  /\ socialAccounts = <<>>

NextRecordCalls ==
  \/ RecordProfile
  \/ RecordRepos
  \/ RecordCommits
  \/ RecordSocial

SpecRecord == InitRecord /\ [][NextRecordCalls]_vars

(***************************************************************************)
(* The dump command: the query, the header and one line per row            *)
(***************************************************************************)
\* most stargazers in the store of a dump
MaxDumpRows == 2

\* const headers = [...]
DumpHeaders ==
  <<<<"u", "s", "e", "r", "n", "a", "m", "e">>,
    <<"s", "t", "a", "r", "r", "e", "d", "_", "a", "t">>,
    <<"n", "a", "m", "e">>,
    <<"e", "m", "a", "i", "l">>,
    <<"c", "o", "u", "n", "t", "r", "y">>,
    <<"c", "u", "r", "r", "e", "n", "t", "_", "e", "m", "p", "l", "o", "y", "e", "r">>,
    <<"p", "a", "s", "t", "_", "e", "m", "p", "l", "o", "y", "e", "r", "s">>,
    <<"l", "i", "n", "k", "e", "d", "i", "n", "_", "u", "r", "l">>,
    <<"t", "w", "i", "t", "t", "e", "r", "_", "u", "r", "l">>,
    <<"w", "e", "b", "s", "i", "t", "e", "_", "u", "r", "l">>,
    <<"u", "n", "i", "v", "e", "r", "s", "i", "t", "y">>,
    <<"o", "t", "h", "e", "r", "_", "s", "o", "c", "i", "a", "l", "s">>>>

\* String(value) of a login or a timestamp, which the model numbers from 1
DecimalDigits == <<"1", "2", "3", "4", "5", "6", "7", "8", "9">>
StringOf(n) == <<DecimalDigits[n]>>

\* ORDER BY s.starred_at DESC (the timestamps of the model are distinct)
RECURSIVE OrderByStarredAtDesc(_)
OrderByStarredAtDesc(table) ==
  IF table = <<>> THEN <<>>
  ELSE LET k == CHOOSE i \in 1..Len(table) :
                  \A j \in 1..Len(table) : table[j].starred_at <= table[i].starred_at
       IN  <<table[k]>> \o
           OrderByStarredAtDesc([i \in 1..(Len(table) - 1) |->
                                   IF i < k THEN table[i] ELSE table[i + 1]])

\* the columns of the query for a stargazer and a profile
JoinedRow(s, e) ==
  <<Some(StringOf(s.username)), Some(StringOf(s.starred_at)), e.name, e.email,
    e.country, e.employers, e.linkedin_url, e.website_url, e.university,
    e.twitter_username, e.social_accounts>>
\* the columns of the query for a stargazer without profile: NULL in every
\* column of e
UnmatchedRow(s) ==
  <<Some(StringOf(s.username)), Some(StringOf(s.starred_at)), Undefined,
    Undefined, Undefined, Undefined, Undefined, Undefined, Undefined,
    Undefined, Undefined>>

\* FROM stargazers s LEFT JOIN enriched_profiles e ON s.id = e.github_id
RECURSIVE LeftJoin(_, _)
LeftJoin(stars, profiles) ==
  IF stars = <<>> THEN <<>>
  ELSE LET matches == SelectSeq(profiles,
                                LAMBDA e : e.github_id = stars[1].id)
       IN  (IF matches = <<>> THEN <<UnmatchedRow(stars[1])>>
            ELSE [k \in 1..Len(matches) |-> JoinedRow(stars[1], matches[k])])
           \o LeftJoin(Tail(stars), profiles)

\* const values = [escapeCSV(row[0]), ..., escapeCSV(others)];
\* values.join(",")
DumpLine(row) ==
  LET employers == ParseEmployers(row[6])
      socials == ParseSocialAccounts(row[11], row[7], row[10])
  IN  Join(<<EscapeCSV(row[1]), EscapeCSV(row[2]), EscapeCSV(row[3]),
             EscapeCSV(row[4]), EscapeCSV(row[5]),
             EscapeCSV(Some(employers.current)),
             EscapeCSV(Some(employers.past)),
             EscapeCSV(Some(socials.linkedin)),
             EscapeCSV(Some(socials.twitter)),
             EscapeCSV(row[8]), EscapeCSV(row[9]),
             EscapeCSV(Some(socials.others))>>, <<",">>)

\* const rows = await query.getRows()
DumpQuery ==
  /\ fpc = "dump"
  /\ dumpRows' = LeftJoin(OrderByStarredAtDesc(stargazers), enriched_profiles)
  /\ fpc' = "dump_rows"
  /\ UNCHANGED <<countryVars, exportVars, csv>>
  /\ UNCHANGED <<storeVars, runVars, clientVars, hostVars, recordVars>>

\* const lines = [headers.join(",")]; for (const row of rows)
\* lines.push(values.join(",")); const csv = lines.join("\n")
DumpWrite ==
  /\ fpc = "dump_rows"
  /\ csv' = Some(Join(<<Join(DumpHeaders, <<",">>)>>
                        \o [k \in 1..Len(dumpRows) |-> DumpLine(dumpRows[k])],
                      <<"\n">>))
  /\ fpc' = "dump_done"
  /\ UNCHANGED <<countryVars, exportVars, dumpRows>>
  /\ UNCHANGED <<storeVars, runVars, clientVars, hostVars, recordVars>>

\* the profile rows of the stores dumped: one with a value in every column,
\* and the ones that differ from it in one column
FullProfile(id) ==
  [github_id |-> id,
   name |-> Some(<<"a">>),
   email |-> Some(AddrA),
   country |-> Some(<<"U", "S">>),
   employers |-> JsonText(JsonArray(
                   <<[name |-> <<"A", "c", "m", "e">>, current |-> Some(TRUE)],
                     [name |-> <<"B">>, current |-> Undefined]>>)),
   linkedin_url |-> Undefined,
   website_url |-> Some(Http \o <<":", "w">>),
   university |-> Some(<<"M", "I", "T">>),
   twitter_username |-> Some(<<"j", "o">>),
   social_accounts |-> JsonText(JsonArray(
                         <<[provider |-> Linkedin, url |-> Http \o <<":", "a">>],
                           [provider |-> <<"n", "p", "m">>, url |-> <<"b">>]>>))]
DumpNames ==
  {Undefined, Some(<<"a", ",", "b">>), Some(<<"\"">>), Some(<<"a", "\n", "b">>),
   Some(<<"a", "\r", "b">>)}
DumpProfiles(id) ==
  {FullProfile(id)}
    \cup {[FullProfile(id) EXCEPT !.name = n] : n \in DumpNames}
    \cup {[FullProfile(id) EXCEPT !.employers = t] : t \in {Undefined, Malformed}}
    \cup {[FullProfile(id) EXCEPT !.social_accounts = Undefined,
                                  !.twitter_username = Undefined]}
    \cup {[FullProfile(id) EXCEPT !.name = Undefined, !.email = Undefined,
             !.country = Undefined, !.employers = Undefined,
             !.website_url = Undefined, !.university = Undefined,
             !.twitter_username = Undefined, !.social_accounts = Undefined]}

\* the stargazer rows of the identifiers given, in this order, those of the
\* set done being 'completed'
DumpStargazers(ids, done) ==
  [k \in 1..Len(ids) |->
     [NewStargazerRow(GitHubStargazer(ids[k])) EXCEPT
        !.enrichment_status = IF ids[k] \in done THEN "completed" ELSE @]]
\* sequences of distinct identifiers
DistinctIds ==
  {q \in UNION {[1..n -> Ids] : n \in 0..MaxDumpRows} :
     \A i, j \in 1..Len(q) : i /= j => q[i] /= q[j]}

\* a store after runs of runFetch and runEnrich, about to be dumped
InitDump ==
  /\ ClientAtRest /\ HostAtRest
  /\ RecordAtRest
  /\ pc = "idle"
  /\ allStargazers = <<>>
  /\ rerun = FALSE
  /\ worker = FALSE
  /\ limit = Undefined
  /\ stargazerList = <<>>
  /\ existingIds = {}
  /\ fi = 1
  /\ newCount = 0
  /\ startLen = 0
  /\ page = 1
  /\ pagesRequested = <<>>
  /\ pagesReceived = <<>>
  /\ totalPending = 0
  /\ batchSize = 0
  /\ pendingRows = <<>>
  /\ ri = 1
  /\ enriched = 0
  /\ failed = 0
  /\ thrownBy = None
  /\ sample = Undefined
  /\ candidateEmails = <<>>
  /\ socialAccounts = <<>>
  /\ objectCountry = Undefined
  /\ enrichedCountry = Undefined
  /\ storedCountry = Undefined
  /\ countryAgain = Undefined
  /\ employersJson = Undefined
  /\ employersResult = Undefined
  /\ socialJson = Undefined
  /\ existingLinkedin = Undefined
  /\ existingTwitter = Undefined
  /\ socialResult = Undefined
  /\ csvValue = Undefined
  /\ csvField = Undefined
  /\ fpc = "dump"
  /\ dumpRows = <<>>
  /\ csv = Undefined
  /\ \E ids \in DistinctIds :
       \E done \in SUBSET {ids[k] : k \in 1..Len(ids)} :
          /\ stargazers = DumpStargazers(ids, done)
          /\ \E rows \in [done -> UNION {DumpProfiles(id) : id \in Ids}] :
               /\ \A id \in done : rows[id].github_id = id
               /\ enriched_profiles =
                    LET kept == SelectSeq(ids, LAMBDA id : id \in done)
                    IN  [k \in 1..Len(kept) |-> rows[kept[k]]]

NextDump ==
  \/ DumpQuery
  \/ DumpWrite

SpecDump == InitDump /\ [][NextDump]_vars

(***************************************************************************)
(* The store under any sequence of runFetch and runEnrich invocations      *)
(***************************************************************************)
Init ==
  /\ stargazers = <<>>
  /\ enriched_profiles = <<>>
  /\ pc = "idle"
  /\ allStargazers = <<>>
  /\ rerun = FALSE
  /\ worker = FALSE
  /\ limit = Undefined
  /\ stargazerList = <<>>
  /\ existingIds = {}
  /\ fi = 1
  /\ newCount = 0
  /\ startLen = 0
  /\ page = 1
  /\ pagesRequested = <<>>
  /\ pagesReceived = <<>>
  /\ totalPending = 0
  /\ batchSize = 0
  /\ pendingRows = <<>>
  /\ ri = 1
  /\ enriched = 0
  /\ failed = 0
  /\ thrownBy = None
  /\ sample = Undefined
  /\ candidateEmails = <<>>
  /\ socialAccounts = <<>>
  /\ ClientAtRest
  /\ FieldsAtRest
  /\ env \in [GITHUB_TOKEN : BOOLEAN, OPENROUTER_API_KEY : BOOLEAN]
  /\ host = "start"
  /\ cycles = <<>>
  /\ others = NoOthers

\* one run at a time and no other writer: the commands of the CLI
NextAlone ==
  \/ Finish
  \/ Crash
  \/ FetchStart
  \/ FetchExisting
  \/ FetchInsert
  \/ EnrichStart
  \/ EnrichSelect
  \/ EnrichProfile
  \/ EnrichRepos
  \/ EnrichCommits
  \/ EnrichSocial
  \/ EnrichExtract
  \/ EnrichInsert
  \/ EnrichUpdate
  \/ EnrichCatch

SpecAlone == Init /\ [][NextAlone]_vars

\* a run among the statements of the other cycles of the host
Next ==
  \/ Finish
  \/ Crash
  \/ FetchStart
  \/ FetchExisting
  \/ FetchInsert
  \/ EnrichStart
  \/ EnrichSelect
  \/ EnrichProfile
  \/ EnrichRepos
  \/ EnrichCommits
  \/ EnrichSocial
  \/ EnrichExtract
  \/ EnrichInsert
  \/ EnrichUpdate
  \/ EnrichCatch
  \/ OtherFetchInsert
  \/ OtherEnrichSelect
  \/ OtherEnrichInsert
  \/ OtherEnrichUpdate
  \/ OtherEnrichFail

Spec == Init /\ [][Next]_vars

\* a runWorker call among the statements of the calls the timer of
\* src/unnamed/part_001 started without waiting
NextWorker ==
  \/ Finish
  \/ Crash
  \/ WorkerStart
  \/ FetchExisting
  \/ FetchInsert
  \/ WorkerSelect
  \/ EnrichProfile
  \/ EnrichExtract
  \/ EnrichInsert
  \/ EnrichUpdate
  \/ EnrichCatch
  \/ OtherWorkerFetchInsert
  \/ OtherWorkerSelect
  \/ OtherWorkerInsert
  \/ OtherEnrichUpdate
  \/ OtherEnrichFail

SpecWorker == Init /\ [][NextWorker]_vars

(***************************************************************************)
(* Properties                                                              *)
(***************************************************************************)
Terminal == {"completed", "failed"}
\* the id of the record runEnrich is processing
CurrentId == pendingRows[ri].id
\* the step is a statement of the run followed, not one of another cycle
\* (those leave the position and the locals of the run as they are)
OwnStep == <<pc, fi, ri>>' /= <<pc, fi, ri>>

\* C1: over any sequence of runFetch and runEnrich invocations a row whose
\* status is 'completed' or 'failed' keeps that status for ever, and every
\* record runEnrich processes has status 'pending' (no record is retried).
StatusMonotone ==
  [][/\ \A k \in 1..Len(stargazers) :
          stargazers[k].enrichment_status \in Terminal =>
            /\ Len(stargazers') >= k
            /\ stargazers'[k].id = stargazers[k].id
            /\ stargazers'[k].enrichment_status = stargazers[k].enrichment_status
     /\ pc' \in RecordSteps =>
          StatusesOf(stargazers', pendingRows'[ri'].id) = {"pending"}]_vars

\* C2: after a runEnrich invocation and between two record procedures, an
\* enriched_profiles row exists for an id iff the stargazer's status is
\* 'completed', and there is at most one enriched_profiles row per id.
ProfileIffCompleted ==
  pc \in {"e_profile", "e_returned"} =>
    \A id \in Ids :
      /\ Cardinality(ProfilesWithId(enriched_profiles, id)) <= 1
      /\ ProfilesWithId(enriched_profiles, id) /= {}
           <=> "completed" \in StatusesOf(stargazers, id)

\* C3: whenever runEnrich sets a record's status to 'failed', no
\* enriched_profiles row exists for that id, whichever step raised.
FailedHasNoProfile ==
  [][pc = "e_catch" /\ "failed" \in StatusesOf(stargazers', CurrentId) =>
       ProfilesWithId(enriched_profiles', CurrentId) = {}]_vars

\* C4: when the procedure of a record fails, the record is marked 'failed',
\* the batch goes on with the next record and the run returns normally.
FailureIsIsolated ==
  [][pc = "e_catch" =>
       /\ StatusesOf(stargazers', CurrentId) = {"failed"}
       /\ pc' \in {"e_profile", "e_returned"}]_vars

\* C5: a runFetch that follows a normally returned runFetch with the same
\* limit and the same upstream list changes no row, inserts nothing (so that
\* no insert can fail) and reports new = 0, whatever the other cycles of the
\* host do meanwhile.
FetchIdempotent ==
  [][(rerun' /\ OwnStep) =>
       /\ stargazers' = stargazers
       /\ pc = "f_insert" => pc' /= "f_raised"
       /\ pc' = "f_returned" => newCount' = 0]_vars

\* C5 witness: the second of two runs over a non-empty list has returned.
FetchIdempotentWitness ==
  /\ rerun
  /\ pc = "f_returned"
  /\ Len(stargazerList) > 0

\* C6: the stargazers table never holds two rows for one identifier, under
\* the runs of any number of overlapping cycles; when a runFetch returns, each
\* identifier of its list has exactly one row and without a limit every
\* identifier the run observed is stored; 'new' grows by one with each row a
\* statement of the run adds and with nothing else.
OneRowPerStargazer ==
  /\ [](\A id \in Ids : Cardinality(RowsWithId(stargazers, id)) <= 1)
  /\ [](pc = "f_returned" =>
          /\ \A k \in 1..Len(stargazerList) :
               Cardinality(RowsWithId(stargazers, stargazerList[k].id)) = 1
          /\ limit = Undefined =>
               \A k \in 1..Len(allStargazers) :
                 allStargazers[k].id \in IdsOf(stargazers))
  /\ [][(pc = "f_insert" /\ OwnStep /\ pc' /= "idle") =>
          newCount' - newCount = Len(stargazers') - Len(stargazers)]_vars
  /\ [](pc = "f_existing" => newCount = 0)

\* C6 witness: a run without a limit returned after it observed an identifier
\* an earlier run had stored and inserted a new one.
OneRowPerStargazerWitness ==
  /\ pc = "f_returned"
  /\ limit = Undefined
  /\ newCount >= 1
  /\ \E k \in 1..Len(allStargazers) : allStargazers[k].id \in existingIds

\* C7: from a quota state with reserve <= remaining <= 500 and the reset in
\* the future, requests separated by the delay of adaptiveWait, each consuming
\* one unit, never take the remaining quota below the reserve of 20 before the
\* reset instant.
PacingKeepsReserve ==
  [][/\ rateLimitRemaining >= RATE_LIMIT_RESERVE
     /\ rateLimitRemaining <= RATE_LIMIT_THRESHOLD
     /\ now < rateLimitReset * 1000
     /\ now' < rateLimitReset' * 1000
     => rateLimitRemaining' >= RATE_LIMIT_RESERVE]_vars

\* C8: adaptiveWait waits exactly 100 ms when reset = 0, when the reset is not
\* in the future or when remaining > 500, and otherwise
\* min(60000, max(100, floor(timeUntilReset / max(1, remaining - 20)))) ms.
AdaptiveWaitDelay ==
  [][cpc = "adaptiveWait" /\ cpc' = "fetch" =>
       delay' =
         IF \/ rateLimitReset = 0
            \/ rateLimitReset * 1000 <= now
            \/ rateLimitRemaining > 500
         THEN 100
         ELSE Min(60000,
                  Max(100, (rateLimitReset * 1000 - now)
                             \div Max(1, rateLimitRemaining - 20)))]_vars

\* C8 witness: with remaining = 500 and the reset in the future the wait was
\* longer than the minimum delay.
AdaptiveWaitDelayWitness ==
  /\ cpc = "fetch"
  /\ rateLimitRemaining = 500
  /\ now < rateLimitReset * 1000
  /\ delay > 100

\* C9 as stated: request retries iff the response has an error status and
\* reports zero remaining quota; every other non-2xx response makes the call
\* fail.
RetryIffErrorAndZeroQuota ==
  [][cpc = "fetch" /\ cpc' /= "fetch" =>
       LET err == ~Ok(response'.status)
           zero == ParseRemaining(response'.remaining) = 0
       IN  /\ cpc' = "rateLimited" <=> (err /\ zero)
           /\ (err /\ ~zero) => cpc' = "thrown"]_vars

\* C9 amended: request retries iff the response has status 403 and reports
\* zero remaining quota; every other non-2xx response, zero remaining quota
\* or not, makes the call fail after that single HTTP call.
RetryIff403AndZeroQuota ==
  [][/\ cpc = "fetch" /\ cpc' /= "fetch" =>
          LET err == ~Ok(response'.status)
              exhausted == /\ response'.status = 403
                           /\ ParseRemaining(response'.remaining) = 0
          IN  /\ cpc' = "rateLimited" <=> exhausted
              /\ (err /\ ~exhausted) => cpc' = "thrown"
     /\ cpc = "thrown" => wire' \in {wire, <<>>}]_vars

\* C9 witness: a 404 response that reports zero remaining quota made the call
\* fail.
RetryIff403Witness ==
  /\ cpc = "thrown"
  /\ response.status = 404
  /\ rateLimitRemaining = 0

\* C10: after a quota-exhausted response the call sleeps at least 1 s and at
\* least until the reported reset instant plus 1 s, then issues the request
\* again with the same endpoint and headers; the call ends, and when it
\* returns, it returns the body of the success response.
RetryWaitsAndResends ==
  /\ [][cpc = "rateLimited" /\ cpc' /= "rateLimited" =>
          /\ now' >= rateLimitReset * 1000 + 1000
          /\ now' >= now + 1000
          /\ cpc' = "adaptiveWait"]_vars
  /\ [](\A i, j \in 1..Len(wire) : wire[i] = wire[j])
  /\ [](cpc = "fetch" => wire[Len(wire)] = <<endpoint, MergeHeaders(headers)>>)
  /\ [](cpc = "returned" => Ok(response.status) /\ result = response.body)
  /\ (cpc = "rateLimited" ~> cpc \in {"returned", "thrown"})

\* C10 witness: a call returned a body after a retry that waited for a reset
\* instant in the future.
RetryWaitsAndResendsWitness ==
  /\ cpc = "returned"
  /\ Len(wire) = 2
  /\ requestCount = 2
  /\ headers /= Undefined
  /\ now >= 91000

\* the number of entries of the pages before page j
RECURSIVE PageOffset(_)
PageOffset(j) == IF j <= 1 THEN 0 ELSE PageOffset(j - 1) + pagesReceived[j - 1]
Paginated == {"f_existing", "f_insert", "f_returned"}

\* C11: getAllStargazers requests pages 1, 2, ... in order and stops at the
\* first page k that is empty or has fewer than 100 entries; it issued exactly
\* k requests and its result is pages 1..k concatenated in page order; pages of
\* 250, 100 and 10 entries give 360 entries and, through runFetch on an empty
\* store, 360 rows.
PagesConcatenated ==
  /\ \A i \in 1..Len(pagesRequested) : pagesRequested[i] = i
  /\ Len(pagesRequested) - Len(pagesReceived) \in {0, 1}
  /\ pc = "f_page" =>
       /\ \A j \in 1..Len(pagesReceived) : pagesReceived[j] >= 100
       /\ Len(pagesRequested) = Len(pagesReceived)
  /\ pc \in Paginated =>
       LET k == Len(pagesReceived)
       IN  /\ k >= 1
           /\ Len(pagesRequested) = k
           /\ pagesReceived[k] < 100
           /\ \A j \in 1..(k - 1) : pagesReceived[j] >= 100
           /\ Len(allStargazers) = PageOffset(k + 1)
           /\ \A j \in 1..k : \A i \in 1..pagesReceived[j] :
                allStargazers[PageOffset(j) + i].id = 1000 * (j - 1) + i
           /\ pagesReceived = <<250, 100, 10>> => Len(allStargazers) = 360
           /\ (pagesReceived = <<250, 100, 10>> /\ pc = "f_returned"
                 /\ (limit = Undefined \/ limit[1] <= 0)) =>
                (Len(stargazers) = 360 /\ newCount = 360)

\* C11 witness: pages of 250, 100 and 10 entries were fetched and the run
\* returned with 360 rows stored.
PagesConcatenatedWitness ==
  /\ pc = "f_returned"
  /\ pagesReceived = <<250, 100, 10>>
  /\ pagesRequested = <<1, 2, 3>>
  /\ limit = Undefined
  /\ Len(stargazers) = 360

\* the invariants of the store for one identifier
StoreInvariantAt(id) ==
  /\ Cardinality(RowsWithId(stargazers, id)) <= 1
  /\ Cardinality(ProfilesWithId(enriched_profiles, id)) <= 1
  /\ ProfilesWithId(enriched_profiles, id) /= {}
       <=> "completed" \in StatusesOf(stargazers, id)
  /\ "failed" \in StatusesOf(stargazers, id)
       => ProfilesWithId(enriched_profiles, id) = {}

\* the identifier of the record a run is in the middle of
InProgressIds == IF pc \in RecordSteps THEN {pendingRows[ri].id} ELSE {}

\* C12: when the process crashes at any step of runFetch or runEnrich, the
\* store it leaves to the next invocation satisfies the store invariants: at
\* most one stargazer row and one profile row per id, a profile row iff the
\* status is 'completed', no profile row for a 'failed' record.
CrashLeavesStoreConsistent ==
  [][(/\ pc \notin Ended \cup {"idle"}
      /\ pc' = "idle"
      /\ \A id \in Ids \ InProgressIds : StoreInvariantAt(id))
     => \A id \in Ids : StoreInvariantAt(id)']_vars

\* C13: in the host process at most one cycle executes at any time, however
\* long a cycle lasts, and so at most one GitHub request is in flight.
OneCycleAtATime ==
  /\ Cardinality({c \in 1..Len(cycles) : cycles[c] \in Active}) <= 1
  /\ Cardinality({c \in 1..Len(cycles) :
                    cycles[c] \in {"f_request", "e_request"}}) <= 1

\* C14: a failure of the repository listing or of the commit listing is
\* swallowed: the record is not marked failed because of it, the candidate list
\* is empty, and the procedure goes on with the social accounts and then the
\* extraction, which receives that empty list (steps to "idle" are crashes of
\* the process, not failures of a request).
EmailErrorSwallowed ==
  /\ [][(pc \in {"e_repos", "e_commits"} /\ OwnStep /\ pc' /= "idle") =>
          /\ pc' \in {"e_commits", "e_social"}
          /\ stargazers' = stargazers
          /\ failed' = failed
          /\ (thrownBy' \in {"repos", "commits"}
                => (pc' = "e_social" /\ candidateEmails' = <<>>))]_vars
  /\ [][(pc = "e_social" /\ OwnStep /\ pc' /= "idle") =>
          /\ pc' = "e_extract"
          /\ candidateEmails' = candidateEmails]_vars
  /\ [](pc = "e_social" /\ thrownBy \in {"repos", "commits"}
          => candidateEmails = <<>>)

\* C14 witness: the commit listing raised and the procedure is at the
\* social-accounts request with no candidate email.
EmailErrorSwallowedWitness ==
  /\ pc = "e_social"
  /\ thrownBy = "commits"
  /\ candidateEmails = <<>>
  /\ StatusesOf(stargazers, CurrentId) = {"pending"}

\* the enriched_profiles rows of the record in progress
CurrentProfiles ==
  {enriched_profiles[k] : k \in ProfilesWithId(enriched_profiles, CurrentId)}

\* C15: a failure of the social-accounts request never marks the record
\* failed: the list is taken as empty, the extraction runs, and when the
\* extraction, the insert and the update succeed the record is 'completed'
\* with the empty list stored.
SocialErrorSwallowed ==
  /\ [][(pc = "e_social" /\ OwnStep /\ pc' /= "idle") =>
          /\ pc' = "e_extract"
          /\ stargazers' = stargazers
          /\ failed' = failed]_vars
  /\ [](pc = "e_extract" /\ thrownBy = "social" => socialAccounts = <<>>)
  /\ [][pc = "e_extract" /\ pc' = "e_insert" =>
          socialAccounts' = socialAccounts]_vars
  /\ [][pc = "e_insert" /\ pc' = "e_update" =>
          /\ socialAccounts' = socialAccounts
          /\ CurrentProfiles' =
               {[github_id |-> CurrentId,
                 social_accounts |-> Some(socialAccounts)]}]_vars
  /\ [][pc = "e_update" /\ pc' \in {"e_profile", "e_returned"} =>
          /\ StatusesOf(stargazers', CurrentId) = {"completed"}
          /\ enriched_profiles' = enriched_profiles]_vars

\* C15 witness: a run returned after it enriched its one record, that of the
\* user who lists an account: the record is 'completed' and the row the run
\* stored for it holds an empty social-account list.
SocialErrorSwallowedWitness ==
  /\ pc = "e_returned"
  /\ ~worker
  /\ enriched = 1
  /\ Len(pendingRows) = 1
  /\ pendingRows[1].id = 1
  /\ StatusesOf(stargazers, 1) = {"completed"}
  /\ \E k \in 1..Len(enriched_profiles) :
       enriched_profiles[k] = [github_id |-> 1, social_accounts |-> Some(<<>>)]

\* C16: without GITHUB_TOKEN runFetch and runEnrich raise before any request
\* and never change the store; without OPENROUTER_API_KEY runEnrich raises
\* before any request and no record changes its status.
MissingKeyAborts ==
  /\ ~env.GITHUB_TOKEN =>
       /\ pc \in {"idle", "f_raised", "e_raised"}
       /\ stargazers = <<>>
       /\ enriched_profiles = <<>>
  /\ ~env.OPENROUTER_API_KEY =>
       /\ pc \notin RecordSteps \cup {"e_select", "e_returned"}
       /\ enriched_profiles = <<>>
       /\ \A k \in 1..Len(stargazers) :
            stargazers[k].enrichment_status = "pending"

\* C16 witness: runEnrich raised without OPENROUTER_API_KEY while pending
\* records are stored.
MissingKeyAbortsWitness ==
  /\ ~env.OPENROUTER_API_KEY
  /\ env.GITHUB_TOKEN
  /\ pc = "e_raised"
  /\ Len(stargazers) >= 1

\* C17: with a sample fraction f in (0, 1] the batch size of runEnrich is
\* max(1, round(pendingCount * f)): 200 pending records and 0.1 give 20; the
\* run never processes (brings to 'completed' or 'failed') more records than
\* the batch size; and with f = 1.0 a run that went through its selection
\* has, when it ends, processed every record that was pending: its two
\* counts add up to the pending count and no row is left 'pending'.
SampledRunProcessesBatch ==
  (sample /= Undefined /\ sample[1] > 0 /\ sample[1] <= 100) =>
    LET twice == 2 * totalPending * sample[1]
    IN  /\ (pc \in {"e_select", "e_returned"} \cup RecordSteps) =>
              /\ batchSize >= 1
              /\ IF twice < 100 THEN batchSize = 1
                 ELSE /\ 200 * batchSize - twice <= 100
                      /\ 200 * batchSize - twice > -100
              /\ (totalPending = 200 /\ sample[1] = 10) => batchSize = 20
        /\ enriched + failed <= batchSize
        /\ Len(pendingRows) <= batchSize
        /\ (/\ sample[1] = 100
            /\ \/ pc = "e_returned"
               \/ pc = "e_raised" /\ pendingRows /= <<>>) =>
              /\ enriched + failed = totalPending
              /\ PendingRowsOf(stargazers) = <<>>

\* C18: without a valid sample fraction runEnrich processes (brings to
\* 'completed' or 'failed') at most 'limit' records when a limit is given and
\* at most 500 otherwise; with neither option and more than 500 pending
\* records, a run that went through its selection has, when it ends,
\* processed exactly 500 records and the others are still 'pending'.
DefaultRunProcessesBatch ==
  (sample = Undefined \/ sample[1] <= 0 \/ sample[1] > 100) =>
    /\ limit /= Undefined =>
         /\ enriched + failed <= limit[1]
         /\ Len(pendingRows) <= limit[1]
    /\ limit = Undefined =>
         /\ enriched + failed <= 500
         /\ Len(pendingRows) <= 500
    /\ (/\ limit = Undefined
        /\ sample = Undefined
        /\ totalPending > 500
        /\ \/ pc = "e_returned"
           \/ pc = "e_raised" /\ pendingRows /= <<>>) =>
         /\ enriched + failed = 500
         /\ Len(PendingRowsOf(stargazers)) = totalPending - 500
         /\ \A k \in 1..Len(stargazers) :
              stargazers[k].enrichment_status = "pending" <=>
                \A j \in 1..Len(pendingRows) :
                  pendingRows[j].id /= stargazers[k].id

\* the number of rows with a status
CountStatus(table, st) ==
  Cardinality({k \in 1..Len(table) : table[k].enrichment_status = st})

\* C19: during and at the end of a runEnrich, (pending count at start) -
\* enriched - failed is the number of 'pending' rows; enriched counts the rows
\* that became 'completed' and failed those that became 'failed'; at the
\* return enriched + failed is the number of records selected.
CountsMatchStore ==
  /\ [](pc \in RecordSteps \cup {"e_returned"} =>
          totalPending - enriched - failed = CountStatus(stargazers, "pending"))
  /\ [](pc = "e_returned" => enriched + failed = Len(pendingRows))
  /\ [][(pc \in RecordSteps /\ pc' \in RecordSteps \cup {"e_returned"}) =>
          /\ CountStatus(stargazers', "completed")
               - CountStatus(stargazers, "completed") = enriched' - enriched
          /\ CountStatus(stargazers', "failed")
               - CountStatus(stargazers, "failed") = failed' - failed]_vars

\* C19 witness: a run over two records returned one enriched and one failed
\* while a record stays pending.
CountsMatchStoreWitness ==
  /\ pc = "e_returned"
  /\ enriched = 1
  /\ failed = 1
  /\ Len(pendingRows) = 2

\* C20: a limit N > 0 on a longer list keeps the last N entries in their
\* order, only those are considered for insertion and total = N; without a
\* limit, with a limit <= 0 or with a list of at most N entries the whole list
\* is used.
LimitKeepsTail ==
  pc \in Paginated =>
    LET n == Len(allStargazers)
    IN  /\ IF limit /= Undefined /\ limit[1] > 0 /\ n > limit[1]
           THEN /\ Len(stargazerList) = limit[1]
                /\ \A k \in 1..limit[1] :
                     stargazerList[k] = allStargazers[n - limit[1] + k]
           ELSE stargazerList = allStargazers
        /\ Len(stargazers) <= Len(stargazerList)
        /\ \A k \in 1..Len(stargazers) : stargazers[k].id = stargazerList[k].id
        /\ pc = "f_returned" =>
             (newCount = Len(stargazerList) /\ Len(stargazers) = Len(stargazerList))

\* C20 witness: of 360 fetched entries a limit of 3 stored the last three.
LimitKeepsTailWitness ==
  /\ pc = "f_returned"
  /\ limit = Some(3)
  /\ Len(allStargazers) = 360
  /\ Len(stargazers) = 3
  /\ stargazers[3].id = 2010

\* C21: runFetch only adds stargazer rows: a step of it deletes no row,
\* leaves every stored row (username, star timestamp, status, enrichment
\* timestamp) as it was and leaves enriched_profiles alone; every row it
\* inserts has status 'pending' and no enrichment timestamp.
FetchOnlyAdds ==
  [][(/\ OwnStep
      /\ \/ pc \in {"f_existing", "f_insert"}
         \/ pc' \in {"f_existing", "f_insert", "f_returned", "f_raised"}) =>
       /\ enriched_profiles' = enriched_profiles
       /\ Len(stargazers') >= Len(stargazers)
       /\ \A k \in 1..Len(stargazers) : stargazers'[k] = stargazers[k]
       /\ \A k \in (Len(stargazers) + 1)..Len(stargazers') :
            /\ stargazers'[k].enrichment_status = "pending"
            /\ stargazers'[k].enriched_at = None]_vars

\* C21 witness: a run added a row behind a stored row that is completed and
\* has a profile.
FetchOnlyAddsWitness ==
  /\ pc = "f_returned"
  /\ newCount = 1
  /\ startLen >= 1
  /\ stargazers[1].enrichment_status = "completed"
  /\ Len(enriched_profiles) >= 1
  /\ stargazers[Len(stargazers)].enrichment_status = "pending"

\* C22: an INSERT that fails in the loop makes runFetch raise with the rows
\* inserted earlier in the run still stored; the run inserts nothing after
\* it; a run inserts only identifiers the store did not hold, taken from
\* its list.
InsertFailureKeepsEarlierRows ==
  [][/\ (pc = "f_insert" /\ pc' = "f_raised") =>
          /\ stargazers' = stargazers
          /\ \A j \in 1..(fi - 1) : stargazerList[j].id \in IdsOf(stargazers')
     /\ (pc = "f_raised" /\ OwnStep) => (stargazers' = stargazers /\ pc' = "idle")
     /\ (pc = "f_insert" /\ OwnStep /\ stargazers' /= stargazers) =>
          /\ Len(stargazers') = Len(stargazers) + 1
          /\ stargazers'[Len(stargazers')].id \notin IdsOf(stargazers)
          /\ stargazers'[Len(stargazers')].id = stargazerList[fi].id]_vars

\* C22 witness: the second INSERT of a run raised after the first one stored
\* its row.
InsertFailureKeepsEarlierRowsWitness ==
  /\ pc = "f_raised"
  /\ fi = 2
  /\ newCount = 1
  /\ Len(stargazers) = startLen + 1
  /\ stargazers[Len(stargazers)].id = stargazerList[1].id

\* the positions at which standardizeCountry has returned to
\* extractProfileData
CountryApplied == {"extracted", "stored", "insert_raised", "again"}

\* out is the trimmed input with every white-space-separated token
\* title-cased and the tokens joined by single spaces
IsTitleCased(out, in) ==
  /\ ToLowerCase(out) = ToLowerCase(Join(SplitWhitespace(in), <<" ">>))
  /\ \A i \in 1..Len(out) :
       /\ out[i] \in WhiteSpace =>
            (out[i] = " " /\ 1 < i /\ i < Len(out) /\ out[i + 1] /= " ")
       /\ out[i] \notin WhiteSpace =>
            out[i] = IF i = 1 \/ out[i - 1] = " "
                     THEN ToUpperChar(out[i]) ELSE ToLowerChar(out[i])

\* C23: standardizeCountry never throws; it returns null for a null, empty
\* or white-space-only input, the table value for an input whose trimmed,
\* lower-cased form is a key of the table, and otherwise the trimmed input
\* with each token title-cased, joined by single spaces.
StandardizeCountryContract ==
  fpc \in CountryApplied =>
    /\ enrichedCountry /= Raised
    /\ IF objectCountry = Undefined \/ Trim(objectCountry[1]) = <<>>
       THEN enrichedCountry = Undefined
       ELSE /\ enrichedCountry /= Undefined
            /\ LET key == ToLowerCase(Trim(objectCountry[1]))
               IN  IF key \in CountryKeys
                   THEN \E i \in DOMAIN COUNTRY_STANDARDIZATION :
                          COUNTRY_STANDARDIZATION[i]
                            = <<key, enrichedCountry[1]>>
                   ELSE IsTitleCased(enrichedCountry[1], objectCountry[1])

\* C24: standardizeCountry is idempotent: applied to its own result it
\* returns that result, for every input.
StandardizeCountryIdempotent ==
  fpc = "again" => countryAgain = enrichedCountry

\* C25: the country of a row runEnrich writes is null or canonical, a value
\* standardizeCountry maps to itself.
StoredCountryCanonical ==
  fpc = "stored" =>
    \/ storedCountry = Undefined
    \/ StandardizeCountry(storedCountry) = storedCountry

\* the entries of the list a text holds, <<>> when it holds no list
EntriesOf(text) ==
  IF Falsy(text) \/ JsonParse(text) = Raised THEN <<>>
  ELSE IF JsonParse(text)[1] /= "array" THEN <<>>
  ELSE JsonParse(text)[2]

\* the entries of list at the positions of the set at, in list order
RECURSIVE Pick(_, _, _)
Pick(list, at, k) ==
  IF k > Len(list) THEN <<>>
  ELSE (IF k \in at THEN <<list[k]>> ELSE <<>>) \o Pick(list, at, k + 1)

\* C26: parseEmployers partitions the list: the names of the entries whose
\* flag is true, in list order and joined by ', ', are the current output,
\* the names of all other entries (flag false or missing) the past output;
\* an absent, empty, malformed or non-array input gives two empty strings;
\* it never raises.
EmployersPartitioned ==
  fpc = "employers_done" =>
    LET list == EntriesOf(employersJson)
        flagged == {k \in 1..Len(list) : list[k].current = Some(TRUE)}
    IN  /\ DOMAIN employersResult = {"current", "past"}
        /\ employersResult.current
             = Join(NamesOf(Pick(list, flagged, 1)), CommaSpace)
        /\ employersResult.past
             = Join(NamesOf(Pick(list, (1..Len(list)) \ flagged, 1)),
                    CommaSpace)
        /\ (employersJson \in {Undefined, EmptyText, Malformed}
              \/ employersJson[2] \in NonArrays) =>
             employersResult = [current |-> <<>>, past |-> <<>>]

\* C26 witness: a list of three entries, one current, one past and one
\* without the flag.
EmployersPartitionedWitness ==
  /\ fpc = "employers_done"
  /\ Len(EntriesOf(employersJson)) = 3
  /\ EntriesOf(employersJson)[1].current = Some(FALSE)
  /\ EntriesOf(employersJson)[2].current = Some(TRUE)
  /\ EntriesOf(employersJson)[3].current = Undefined
  /\ employersResult.current = <<"B">>
  /\ Len(employersResult.past) = 7

\* the positions of the entries of list whose provider is p, whatever the
\* case
WithProvider(list, p) ==
  {k \in 1..Len(list) : ToLowerCase(list[k].provider) = p}
First(at) == CHOOSE k \in at : \A j \in at : k <= j

\* the value resolved from a dedicated field and the entries of a provider
Resolved(field, list, p) ==
  IF field /= Undefined /\ field[1] /= <<>> THEN field[1]
  ELSE IF WithProvider(list, p) /= {} THEN list[First(WithProvider(list, p))].url
  ELSE <<>>

\* C27: the LinkedIn value is the dedicated field when it is non-empty,
\* otherwise the URL of the first entry whose provider is 'linkedin' in any
\* case, otherwise the empty string.
LinkedinResolved ==
  fpc = "social_done" =>
    socialResult.linkedin
      = Resolved(existingLinkedin, EntriesOf(socialJson), Linkedin)

\* C27 witness: without a dedicated field the first of two LinkedIn entries,
\* written 'LinkedIn', gave the value.
LinkedinResolvedWitness ==
  /\ fpc = "social_done"
  /\ existingLinkedin = Some(<<>>)
  /\ Len(EntriesOf(socialJson)) = 2
  /\ EntriesOf(socialJson)[1].provider /= Linkedin
  /\ WithProvider(EntriesOf(socialJson), Linkedin) = {1, 2}
  /\ EntriesOf(socialJson)[1].url /= EntriesOf(socialJson)[2].url
  /\ socialResult.linkedin = EntriesOf(socialJson)[1].url

\* v begins with the four characters of 'http'
BeginsWithHttp(v) == Len(v) >= 4 /\ \A i \in 1..4 : v[i] = Http[i]

\* C28: the Twitter value is the declared handle when it is non-empty, else
\* the URL of the first 'twitter' entry; a value that does not start with
\* 'http' gets 'https://twitter.com/' in front; every non-empty output
\* starts with 'http'.
TwitterResolved ==
  fpc = "social_done" =>
    LET value == Resolved(existingTwitter, EntriesOf(socialJson), Twitter)
    IN  /\ socialResult.twitter
             = IF value /= <<>> /\ ~BeginsWithHttp(value)
               THEN TwitterBase \o value ELSE value
        /\ socialResult.twitter /= <<>> =>
             BeginsWithHttp(socialResult.twitter)

\* C28 witness: the handle 'jo' won over a twitter entry and came out as
\* https://twitter.com/jo.
TwitterResolvedWitness ==
  /\ fpc = "social_done"
  /\ existingTwitter = Some(<<"j", "o">>)
  /\ WithProvider(EntriesOf(socialJson), Twitter) /= {}
  /\ socialResult.twitter = TwitterBase \o <<"j", "o">>

\* C29: the entries whose provider is neither 'linkedin' nor 'twitter' make
\* the overflow field, each as '<provider>: <url>', in list order and joined
\* by ', '; they do not influence the LinkedIn and Twitter values; no
\* LinkedIn or Twitter entry is in the overflow field.
OthersOverflow ==
  fpc = "social_done" =>
    LET list == EntriesOf(socialJson)
        named == WithProvider(list, Linkedin) \cup WithProvider(list, Twitter)
        rest == Pick(list, (1..Len(list)) \ named, 1)
        without == IF Len(list) = 0 THEN socialJson
                   ELSE JsonText(JsonArray(Pick(list, named, 1)))
        alone == ParseSocialAccounts(without, existingLinkedin, existingTwitter)
    IN  /\ socialResult.others
             = Join([k \in 1..Len(rest) |->
                       rest[k].provider \o ColonSpace \o rest[k].url],
                    CommaSpace)
        /\ socialResult.linkedin = alone.linkedin
        /\ socialResult.twitter = alone.twitter
        /\ alone.others = <<>>

\* C29 witness: an npm entry between a LinkedIn entry and an overridden
\* twitter entry is alone in the overflow field.
OthersOverflowWitness ==
  /\ fpc = "social_done"
  /\ existingTwitter = Some(<<"j", "o">>)
  /\ Len(EntriesOf(socialJson)) = 2
  /\ EntriesOf(socialJson)[1] = [provider |-> <<"n", "p", "m">>, url |-> <<"b">>]
  /\ ToLowerCase(EntriesOf(socialJson)[2].provider) = Twitter
  /\ socialResult.others = <<"n", "p", "m", ":", " ", "b">>

\* C30: escapeCSV puts a value in double quotes, doubling the quotes inside,
\* exactly when it holds a comma, a double quote or a newline, and returns it
\* unchanged otherwise; read back as one CSV field, the result is the value.
EscapeCSVRoundTrip ==
  (fpc = "csv_done" /\ csvValue /= Undefined) =>
    LET s == csvValue[1]
    IN  /\ csvField = IF \E i \in 1..Len(s) : s[i] \in {",", "\"", "\n"}
                      THEN <<"\"">> \o DoubleQuotes(s) \o <<"\"">>
                      ELSE s
        /\ ReadCSVField(csvField) = <<s, <<>>>>

\* C38: when the list of the run holds an identifier the store does not hold
\* more than once, the run inserts it once, counts it once and returns
\* normally: at its second occurrence the loop inserts nothing, counts
\* nothing and goes on (steps to "idle" are crashes of the process).
DuplicateInsertedOnce ==
  [][(/\ pc = "f_insert"
      /\ pc' /= "idle"
      /\ stargazerList[fi].id \notin existingIds
      /\ \E j \in 1..(fi - 1) : stargazerList[j].id = stargazerList[fi].id) =>
       /\ pc' \in {"f_insert", "f_returned"}
       /\ stargazers' = stargazers
       /\ newCount' = newCount]_vars

\* C37: when a page request fails, getAllStargazers and runFetch raise, the
\* pages fetched before are discarded and no row is inserted, in this step or
\* after it; rows are inserted by the insert loop only, which starts after
\* the whole list was fetched.
PageFailureAbortsFetch ==
  /\ [][(pc = "f_page" /\ pc' /= "idle"
           /\ Len(pagesReceived') = Len(pagesReceived)) =>
          /\ pc' = "f_raised"
          /\ allStargazers' = <<>>
          /\ stargazerList' = <<>>
          /\ Len(stargazers') = startLen]_vars
  /\ [][pc = "f_raised" => (stargazers' = stargazers /\ pc' = "idle")]_vars
  /\ [][stargazers' /= stargazers => pc = "f_insert"]_vars

\* C37 witness: the request of the third page failed after two full pages
\* were received; nothing is stored.
PageFailureAbortsFetchWitness ==
  /\ pc = "f_raised"
  /\ Len(pagesRequested) = 3
  /\ pagesReceived = <<100, 100>>
  /\ stargazers = <<>>
  /\ allStargazers = <<>>

\* C40: the failure of a scheduled cycle is caught: the host stays scheduled
\* and later cycles run; the failure of the initial cycle ends the process
\* with a non-zero status, the timer is never armed; in a cycle runEnrich
\* starts only from a runFetch that returned, a failed runFetch rejects the
\* cycle without enrichment.
HostSurvivesScheduledFailure ==
  /\ [][\A c \in 1..Len(cycles) :
          /\ (c > 1 /\ cycles[c] /= "rejected" /\ cycles'[c] = "rejected") =>
               host' = "scheduled"
          /\ (cycles[c] \notin {"e_store", "e_request"}
                /\ cycles'[c] \in {"e_store", "e_request"}) =>
               cycles[c] = "f_store"
          /\ (cycles[c] \in {"f_request", "f_store"}
                /\ cycles'[c] \in Settled) => cycles'[c] = "rejected"]_vars
  /\ [][(host = "initial" /\ cycles[1] = "rejected" /\ host' /= host) =>
          host' \in {Exited(1), "killed"}]_vars
  /\ [](host = "scheduled" => cycles[1] = "resolved")

\* C40 witness: the second cycle failed, the host is still scheduled and a
\* third cycle has resolved.
HostSurvivesScheduledFailureWitness ==
  /\ host = "scheduled"
  /\ Len(cycles) = 3
  /\ cycles[2] = "rejected"
  /\ cycles[3] = "resolved"

\* C36: with every HTTP response a client receives, whatever its status, the
\* remaining-quota and reset fields of that client become the values of the
\* rate-limit headers of that response (5000 and 0 for an absent header) and
\* its request counter grows by one; no other step changes the three fields.
\* Two instances share no quota state: a second instance starts from 5000, 0
\* and 0 whatever the first has received, a response received by one
\* instance leaves the three fields of the other as they were, and a step
\* that changes the fields of the second instance is a response it received
\* (its counter grows by one, its fields take header values).
QuotaFollowsHeaders ==
  /\ [][IF cpc = "fetch" /\ cpc' /= "fetch"
        THEN /\ rateLimitRemaining' =
                  IF response'.remaining = Undefined THEN 5000
                  ELSE response'.remaining[1]
             /\ rateLimitReset' =
                  IF response'.reset = Undefined THEN 0
                  ELSE response'.reset[1]
             /\ requestCount' = requestCount + 1
             /\ peer' = peer
        ELSE UNCHANGED <<rateLimitRemaining, rateLimitReset,
                         requestCount>>]_vars
  /\ [][peer' /= peer =>
          /\ UNCHANGED <<rateLimitRemaining, rateLimitReset, requestCount>>
          /\ peer'.requestCount = peer.requestCount + 1
          /\ peer'.rateLimitRemaining \in
               {5000} \cup {h[1] : h \in RemainingHeaders \ {Undefined}}
          /\ peer'.rateLimitReset \in
               {0} \cup {h[1] : h \in ResetHeaders \ {Undefined}}]_vars
  /\ [](peer.requestCount = 0 =>
          /\ peer.rateLimitRemaining = 5000
          /\ peer.rateLimitReset = 0)

\* C36 witness: the second response of the client, a 404 without the
\* remaining header and with a reset header, was received, after the second
\* instance had received one response with other header values; the fields
\* of the two instances differ.
QuotaFollowsHeadersWitness ==
  /\ cpc = "thrown"
  /\ response.status = 404
  /\ response.remaining = Undefined
  /\ response.reset = Some(90)
  /\ rateLimitRemaining = 5000
  /\ rateLimitReset = 90
  /\ requestCount = 2
  /\ peer = [rateLimitRemaining |-> 7, rateLimitReset |-> 1,
             requestCount |-> 1]

\* C39: when runEnrich has ended, by returning or by raising, every record of
\* its selection was handled once: the two counts add up to the size of the
\* selection and each selected record has left 'pending' by the one status
\* update of its procedure.
EnrichHandlesEachSelected ==
  (pc \in {"e_returned", "e_raised"}) =>
     /\ enriched + failed = Len(pendingRows)
     /\ \A k \in 1..Len(pendingRows) :
          StatusesOf(stargazers, pendingRows[k].id) \subseteq Terminal

\* C34: the extraction of a record is invoked at most once in a run (no step
\* after it leads back to a step of the same record), and when it raises the
\* handler leaves the record 'failed' and without a row in enriched_profiles.
ExtractionFailureMarksFailed ==
  /\ [][(/\ pc \in {"e_extract", "e_insert", "e_update", "e_catch"}
         /\ pc' \in {"e_profile", "e_repos", "e_commits", "e_social",
                     "e_extract"}) => ri' = ri + 1]_vars
  /\ [][(pc = "e_extract" /\ thrownBy' = "extract") =>
          (pc' = "e_catch" /\ enriched_profiles' = enriched_profiles)]_vars
  /\ [][(pc = "e_catch" /\ thrownBy = "extract" /\ pc' /= "idle") =>
          /\ StatusesOf(stargazers', CurrentId) = {"failed"}
          /\ ProfilesWithId(enriched_profiles', CurrentId) = {}]_vars

\* the place of a step in the procedure of one record
StepRank(step) ==
  CASE step = "e_profile" -> 1
    [] step = "e_repos" -> 2
    [] step = "e_commits" -> 3
    [] step = "e_social" -> 4
    [] step = "e_extract" -> 5
    [] step = "e_insert" -> 6
    [] step = "e_update" -> 7
    [] step = "e_catch" -> 8

\* C33: the steps of one record follow each other in the order profile,
\* repositories, commits, social accounts, extraction, insert, update to
\* 'completed'; the repositories and the commits are listed only after a
\* profile that was fetched and whose email is empty (null or the empty
\* string), a fetched profile with an email is followed by the social
\* accounts directly, the extraction follows the social-accounts step,
\* which is reached only when the profile fetch succeeded, the insert follows
\* a successful extraction, and the update follows the insert.
StepsInOrder ==
  /\ [][(pc \in RecordSteps /\ pc' \in RecordSteps /\ ri' = ri /\ OwnStep) =>
          StepRank(pc') > StepRank(pc)]_vars
  /\ [][(pc = "e_profile" /\ thrownBy' = "profile") => pc' = "e_catch"]_vars
  /\ [][(pc' = "e_repos" /\ pc /= "e_repos") =>
          (pc = "e_profile" /\ thrownBy' = None)]_vars
  /\ [](pc \in {"e_repos", "e_commits"} =>
          /\ profile /= Undefined
          /\ profile[1].email \in {Undefined, Some(<<>>)})
  /\ [][(pc = "e_profile" /\ pc' = "e_social") =>
          /\ profile' /= Undefined
          /\ profile'[1].email \notin {Undefined, Some(<<>>)}]_vars
  /\ [][(pc = "e_profile" /\ pc' \in RecordSteps \ {"e_profile", "e_catch"}
         /\ profile' /= Undefined
         /\ profile'[1].email \in {Undefined, Some(<<>>)}) =>
          pc' = "e_repos"]_vars
  /\ [][(pc' = "e_commits" /\ pc /= "e_commits") =>
          (pc = "e_repos" /\ thrownBy' = None)]_vars
  /\ [][(pc' = "e_social" /\ pc /= "e_social") =>
          \/ pc = "e_profile" /\ thrownBy' = None
          \/ pc \in {"e_repos", "e_commits"}]_vars
  /\ [][(pc' = "e_extract" /\ pc /= "e_extract") => pc = "e_social"]_vars
  /\ [][(pc' = "e_insert" /\ pc /= "e_insert") =>
          (pc = "e_extract" /\ thrownBy' = None)]_vars
  /\ [][(enriched_profiles' /= enriched_profiles /\ OwnStep) =>
          pc = "e_insert"]_vars
  /\ [][(pc' = "e_update" /\ pc /= "e_update") =>
          (pc = "e_insert" /\ enriched_profiles' /= enriched_profiles)]_vars
  /\ [][(/\ OwnStep
         /\ \E k \in 1..Len(stargazers) :
              /\ stargazers'[k].enrichment_status = "completed"
              /\ stargazers[k].enrichment_status /= "completed") =>
          pc = "e_update"]_vars

\* C33 witness: a record went through all seven steps: its profile came
\* with an empty email, the candidate emails of its commits are in hand and
\* its profile row is stored with the social accounts fetched; the update to
\* 'completed' is next.
StepsInOrderWitness ==
  /\ pc = "e_update"
  /\ profile = Some([email |-> Some(<<>>)])
  /\ candidateEmails = <<"a@example.com">>
  /\ socialAccounts /= <<>>
  /\ ProfilesWithId(enriched_profiles, CurrentId) /= {}

\* the endpoints called for the record, in order
ApisCalled == [k \in 1..Len(requests) |-> requests[k].api]
Times(api) == Cardinality({k \in 1..Len(requests) : requests[k].api = api})
RecordDone == pc \in {"e_extract", "e_catch"}
\* an optional address that is an address
IsAddress(e) == e /= Undefined /\ e[1] /= <<>>
\* the places of the user's own repositories that are not forks
OwnedPlaces ==
  IF repos = Undefined THEN {}
  ELSE {k \in 1..Len(repos[1]) :
          repos[1][k].owner = Username /\ ~repos[1][k].fork}

\* C32 as stated: every record costs between 2 and 4 GitHub requests, the
\* profile request and the social-accounts request among them.
RequestsTwoToFour ==
  RecordDone =>
     /\ Len(requests) \in 2..4
     /\ Times("profile") = 1
     /\ Times("social") = 1

\* C32 amended: every record costs between 1 and 4 GitHub requests, each
\* endpoint at most once: the profile request first and always, the
\* social-accounts request exactly when the profile request succeeded, the
\* repositories request exactly when the profile was fetched without an
\* email, the commits request exactly when the repositories request
\* succeeded and listed an owned repository that is not a fork.
RequestsOneToFour ==
  RecordDone =>
     /\ Len(requests) \in 1..4
     /\ requests[1].api = "profile"
     /\ \A api \in {"profile", "repos", "commits", "social"} : Times(api) <= 1
     /\ Times("social") = 1 <=> profile /= Undefined
     /\ Times("repos") = 1 <=>
          (profile /= Undefined /\ ~IsAddress(profile[1].email))
     /\ Times("commits") = 1 <=> OwnedPlaces /= {}
     /\ Times("commits") = 1 => Times("repos") = 1

\* C32 witness: a record with all four requests, and a record whose profile
\* request raised are both possible; this is the first.
RequestsOneToFourWitness ==
  /\ pc = "e_extract"
  /\ ApisCalled = <<"profile", "repos", "commits", "social">>

\* the addresses of the commits fetched: those of authors and committers
\* that are addresses and do not contain 'noreply'
AddressesFetched ==
  IF commits = Undefined THEN {}
  ELSE {e[1] : e \in {x \in {commits[1][k].author : k \in 1..Len(commits[1])}
                             \cup {commits[1][k].committer : k \in 1..Len(commits[1])} :
                        IsAddress(x) /\ ~IncludesString(x[1], Noreply)}}

\* C35: when the extraction is called, the candidate emails are empty for a
\* profile with an email; otherwise the commits were requested from the first
\* listed repository owned by the user and not a fork, the candidates are
\* exactly the author and committer addresses of the commits fetched that do
\* not contain 'noreply', each once; without such a repository no commits
\* were requested and the list is empty.
CandidateEmailsFromFirstOwned ==
  (pc = "e_extract") =>
     /\ IsAddress(profile[1].email) =>
          (candidateEmails = <<>> /\ Times("commits") = 0)
     /\ (~IsAddress(profile[1].email) /\ OwnedPlaces = {}) =>
          (candidateEmails = <<>> /\ Times("commits") = 0)
     /\ (~IsAddress(profile[1].email) /\ OwnedPlaces /= {}) =>
          /\ \E k \in OwnedPlaces :
               /\ \A j \in OwnedPlaces : k <= j
               /\ \E r \in 1..Len(requests) :
                    requests[r] = Call("commits", Username, repos[1][k].name)
          /\ {candidateEmails[i] : i \in 1..Len(candidateEmails)} = AddressesFetched
          /\ Len(candidateEmails) = Cardinality(AddressesFetched)

\* C35 witness: the second listed repository is the first owned one that is
\* not a fork; its two commits name one address twice, a second address and
\* a noreply address; the candidates are the two addresses.
CandidateEmailsFromFirstOwnedWitness ==
  /\ pc = "e_extract"
  /\ profile = Some([email |-> Some(<<>>)])
  /\ repos /= Undefined
  /\ Len(repos[1]) = 2
  /\ repos[1][1].owner = Username
  /\ repos[1][1].fork
  /\ OwnedPlaces = {2}
  /\ commits = Some(<<[author |-> Some(AddrA), committer |-> Some(AddrA)],
                      [author |-> Some(AddrNoreply), committer |-> Some(AddrB)]>>)
  /\ candidateEmails = <<AddrA, AddrB>>

\* a reader of a CSV text (RFC 4180): fields separated by commas, records by
\* line breaks (CRLF, LF or CR); the text left, the fields of the record in
\* hand, the records read
RECURSIVE ReadCSVRecords(_, _, _)
ReadCSVRecords(text, fields, records) ==
  LET read == ReadCSVField(text)
      rest == read[2]
      record == Append(fields, read[1])
  IN  IF rest = Unterminated \/ rest = <<>> THEN Append(records, record)
      ELSE IF rest[1] = "," THEN ReadCSVRecords(Tail(rest), record, records)
      ELSE IF rest[1] = "\r" /\ Len(rest) >= 2 /\ rest[2] = "\n"
      THEN ReadCSVRecords(SubSeq(rest, 3, Len(rest)), <<>>,
                          Append(records, record))
      ELSE IF rest[1] \in {"\r", "\n"}
      THEN ReadCSVRecords(Tail(rest), <<>>, Append(records, record))
      ELSE Append(records, Append(record, Unterminated))
ReadCSV(text) == ReadCSVRecords(text, <<>>, <<>>)

\* C31: the text of the dump reads as the header record with the 12 column
\* names in order followed by one record of 12 fields per stargazer row, in
\* descending order of the star timestamps, beginning with the login and the
\* timestamp; the ten other fields of a stargazer without profile row are
\* empty.
DumpOneRecordPerStargazer ==
  (fpc = "dump_done") =>
    LET records == ReadCSV(csv[1])
        sorted == OrderByStarredAtDesc(stargazers)
    IN  /\ Len(DumpHeaders) = 12
        /\ Len(records) = 1 + Len(stargazers)
        /\ records[1] = DumpHeaders
        /\ \A k \in 1..Len(sorted) :
             /\ Len(records[k + 1]) = 12
             /\ records[k + 1][1] = StringOf(sorted[k].username)
             /\ records[k + 1][2] = StringOf(sorted[k].starred_at)
             /\ ProfilesWithId(enriched_profiles, sorted[k].id) = {} =>
                  \A c \in 3..12 : records[k + 1][c] = <<>>

====
